---- MODULE Spec2Model ----
(***************************************************************************)
(* A model of runme: the markdown block extractor (src/markdown.rs) and    *)
(* the block execution engine (src/runner/mod.rs).                         *)
(*                                                                         *)
(* Strings are sequences of one-character strings, so that trimming,      *)
(* splitting, case folding and formatting are computed, not assumed.       *)
(* Option<T> is a sequence of length 0 (None) or 1 (Some(v)).              *)
(***************************************************************************)
EXTENDS Integers, Sequences, FiniteSets, TLC

\* ------------------------------------------------------------------ bounds

\* The longest event stream handed to extract_blocks.
MaxEvents == 5

\* ---------------------------------------------------------------- Option

None == <<>>

Some(v) == <<v>>

IsSome(o) == o /= <<>>

Unwrap(o) == o[1]

\* Option::or_else: the first value if present, otherwise the second.
OrElse(a, b) == IF IsSome(a) THEN a ELSE b

\* ---------------------------------------------------------------- strings

\* char::is_whitespace, over the characters the model uses.
IsWs(c) == c \in {" ", "\n", "\t", "\r"}

UpperChars == <<"A","B","C","D","E","F","G","H","I","J","K","L","M",
                "N","O","P","Q","R","S","T","U","V","W","X","Y","Z">>

LowerChars == <<"a","b","c","d","e","f","g","h","i","j","k","l","m",
                "n","o","p","q","r","s","t","u","v","w","x","y","z">>

LowerChar(c) ==
    IF \E i \in 1..26 : UpperChars[i] = c
    THEN LowerChars[CHOOSE i \in 1..26 : UpperChars[i] = c]
    ELSE c

\* str::to_ascii_lowercase
ToAsciiLowercase(s) == [i \in 1..Len(s) |-> LowerChar(s[i])]

RECURSIVE TrimStart(_)
\* str::trim_start
TrimStart(s) ==
    IF s /= <<>> /\ IsWs(Head(s)) THEN TrimStart(Tail(s)) ELSE s

RECURSIVE TrimEnd(_)
\* str::trim_end
TrimEnd(s) ==
    IF s /= <<>> /\ IsWs(s[Len(s)]) THEN TrimEnd(SubSeq(s, 1, Len(s) - 1)) ELSE s

\* str::trim
Trim(s) == TrimEnd(TrimStart(s))

\* str::starts_with
StartsWith(s, p) == Len(s) >= Len(p) /\ SubSeq(s, 1, Len(p)) = p

\* str::ends_with
EndsWith(s, p) == Len(s) >= Len(p) /\ SubSeq(s, Len(s) - Len(p) + 1, Len(s)) = p

RECURSIVE TrimStartMatches(_, _)
\* str::trim_start_matches: the prefix is removed as often as it repeats.
TrimStartMatches(s, p) ==
    IF StartsWith(s, p) THEN TrimStartMatches(SubSeq(s, Len(p) + 1, Len(s)), p) ELSE s

RECURSIVE TrimEndMatches(_, _)
\* str::trim_end_matches
TrimEndMatches(s, p) ==
    IF EndsWith(s, p) THEN TrimEndMatches(SubSeq(s, 1, Len(s) - Len(p)), p) ELSE s

RECURSIVE SplitWhitespace(_)
\* str::split_whitespace: the maximal runs of non-whitespace characters.
SplitWhitespace(s) ==
    LET t == TrimStart(s) IN
    IF t = <<>> THEN <<>>
    ELSE LET n == IF \E i \in 1..Len(t) : IsWs(t[i])
                  THEN (CHOOSE i \in 1..Len(t) :
                            IsWs(t[i]) /\ \A j \in 1..(i - 1) : ~IsWs(t[j])) - 1
                  ELSE Len(t)
         IN <<SubSeq(t, 1, n)>> \o SplitWhitespace(SubSeq(t, n + 1, Len(t)))

\* str::split_once(c): None, or Some(<<before, after>>) around the first c.
SplitOnce(s, c) ==
    IF \E i \in 1..Len(s) : s[i] = c
    THEN LET k == CHOOSE i \in 1..Len(s) : s[i] = c /\ \A j \in 1..(i - 1) : s[j] /= c
         IN Some(<<SubSeq(s, 1, k - 1), SubSeq(s, k + 1, Len(s))>>)
    ELSE None

RECURSIVE Join(_, _)
\* [String]::join(sep)
Join(parts, sep) ==
    IF parts = <<>> THEN <<>>
    ELSE IF Len(parts) = 1 THEN parts[1]
    ELSE parts[1] \o sep \o Join(Tail(parts), sep)

DigitChars == <<"0","1","2","3","4","5","6","7","8","9">>

RECURSIVE Decimal(_)
\* The decimal digits of a natural number, as Display writes them.
Decimal(n) ==
    IF n < 10 THEN <<DigitChars[n + 1]>>
    ELSE Decimal(n \div 10) \o <<DigitChars[(n % 10) + 1]>>

RECURSIVE PadZero(_, _)
\* The {:0w} format flag: zeros on the left up to width w, never a cut.
PadZero(digits, w) ==
    IF Len(digits) >= w THEN digits ELSE PadZero(<<"0">> \o digits, w)

\* ------------------------------------------------------------ markdown.rs

\* format!("block-{idx:03}")
FormatIdTwoWide(idx) == <<"b","l","o","c","k","-">> \o PadZero(Decimal(idx), 2)

FormatId(idx) == <<"b","l","o","c","k","-">> \o PadZero(Decimal(idx), 3)

RunmeIgnore == <<"r","u","n","m","e",":","i","g","n","o","r","e">>

RunmeSkip == <<"r","u","n","m","e",":","s","k","i","p">>

RunmeName == <<"r","u","n","m","e",":","n","a","m","e">>

MarkedIgnore == <<"M","a","r","k","e","d"," ","w","i","t","h"," ",
                  "r","u","n","m","e",":","i","g","n","o","r","e">>

\* parse_directive: None, or Some([kind, value]) for a directive comment.
ParseDirective(html) ==
    LET raw == Trim(html) IN
    IF ~(StartsWith(raw, <<"<","!","-","-">>) /\ EndsWith(raw, <<"-","-",">">>))
    THEN None
    ELSE LET inner == Trim(TrimEndMatches(TrimStartMatches(raw, <<"<","!","-","-">>),
                                          <<"-","-",">">>))
             lower == ToAsciiLowercase(inner)
         IN IF StartsWith(lower, RunmeIgnore) \/ StartsWith(lower, RunmeSkip)
            THEN Some([kind |-> "Ignore", value |-> None])
            ELSE IF StartsWith(lower, RunmeName)
            THEN LET name == Trim(SubSeq(inner, 11, Len(inner)))
                 IN Some([kind |-> "Name",
                          value |-> IF name /= <<>> THEN Some(name) ELSE None])
            ELSE None

\* FenceMeta::default()
FenceMetaDefault == [language |-> None, name |-> None, ignore |-> FALSE]

\* One turn of the token loop of parse_fence_meta, were every plain token to
\* become the language.
FenceTokenLastLanguage(meta, token) ==
    LET token_lower == ToAsciiLowercase(token)
        kv == SplitOnce(token, "=")
    IN IF token_lower = RunmeIgnore \/ token_lower = RunmeSkip
       THEN [meta EXCEPT !.ignore = TRUE]
       ELSE IF IsSome(kv)
       THEN IF ToAsciiLowercase(Unwrap(kv)[1]) = RunmeName /\ Unwrap(kv)[2] /= <<>>
            THEN [meta EXCEPT !.name = Some(Unwrap(kv)[2])]
            ELSE meta
       ELSE [meta EXCEPT !.language = Some(token_lower)]

\* One turn of the token loop of parse_fence_meta.
FenceToken(meta, token) ==
    LET token_lower == ToAsciiLowercase(token)
        kv == SplitOnce(token, "=")
    IN IF token_lower = RunmeIgnore \/ token_lower = RunmeSkip
       THEN [meta EXCEPT !.ignore = TRUE]
       ELSE IF IsSome(kv)
       THEN IF ToAsciiLowercase(Unwrap(kv)[1]) = RunmeName /\ Unwrap(kv)[2] /= <<>>
            THEN [meta EXCEPT !.name = Some(Unwrap(kv)[2])]
            ELSE meta
       ELSE IF ~IsSome(meta.language)
       THEN [meta EXCEPT !.language = Some(token_lower)]
       ELSE meta

RECURSIVE FenceFold(_, _)
FenceFold(meta, tokens) ==
    IF tokens = <<>> THEN meta
    ELSE FenceFold(FenceToken(meta, Head(tokens)), Tail(tokens))

\* parse_fence_meta
ParseFenceMeta(info) ==
    LET raw == Trim(info) IN
    IF raw = <<>> THEN FenceMetaDefault
    ELSE FenceFold(FenceMetaDefault, SplitWhitespace(raw))

\* HeadingBuilder::push: fragments are joined by one space.
BuilderPush(buffer, fragment) ==
    IF buffer /= <<>> THEN buffer \o <<" ">> \o fragment ELSE buffer \o fragment

\* Vec::retain(|existing| existing.level < level)
RetainBelow(stack, level) ==
    LET keep == {i \in 1..Len(stack) : stack[i].level < level}
        Pos(i) == Cardinality({j \in keep : j <= i})
    IN [k \in 1..Cardinality(keep) |-> stack[CHOOSE i \in keep : Pos(i) = k]]

\* commit_heading, without the pruning: what a plain push would do.
CommitHeadingNoPrune(stack, buffer, level) ==
    Append(stack, [level |-> level, title |-> Trim(buffer)])

\* commit_heading
CommitHeading(stack, buffer, level) ==
    Append(RetainBelow(stack, level), [level |-> level, title |-> Trim(buffer)])


\* heading_depth
HeadingDepth(level) ==
    CASE level = "H1" -> 1
      [] level = "H2" -> 2
      [] level = "H3" -> 3
      [] level = "H4" -> 4
      [] level = "H5" -> 5
      [] level = "H6" -> 6

\* The titles of the heading stack, innermost first.
StackTitlesInnermostFirst(stack) == [i \in 1..Len(stack) |-> stack[Len(stack) + 1 - i].title]

\* The titles of the heading stack, outermost first.
StackTitles(stack) == [i \in 1..Len(stack) |-> stack[i].title]

\* The name of a closing block, with the inline fence name tried first.
ResolveNameInlineFirst(pending, inline) == OrElse(inline, pending)

\* pending_name.take().or_else(|| block_inline_name.take())
ResolveName(pending, inline) == OrElse(pending, inline)

\* What is left of the inline name after the or_else: taken only when evaluated.
InlineAfterResolve(pending, inline) == IF IsSome(pending) THEN inline ELSE None

\* An Option read with clone(): the value stays where it was.
Cloned(o) == o

\* What Option::take leaves behind in pending_name and pending_skip.
Taken(o) == None

\* A Result: Ok(blocks) or Err(error).
Ok(v) == [ok |-> TRUE, value |-> v, error |-> ""]

Err(e) == [ok |-> FALSE, value |-> <<>>, error |-> e]

\* The end of extract_blocks without the ensure!: Ok whatever is open.
FinishUnchecked(collecting, found) == Ok(found)

\* anyhow::ensure!(!collecting_block, ...); Ok(blocks)
Finish(collecting, found) ==
    IF collecting THEN Err("markdown ended while inside code block") ELSE Ok(found)

\* ------------------------------------------------- inputs of extract_blocks

\* pulldown_cmark::HeadingLevel
HeadingLevels == {"H1", "H2", "H3", "H4", "H5", "H6"}

\* Event::Text payloads: a heading word and a line of a code block.
Texts == { <<"a">>, <<" ","l","s","\n">> }

\* Event::Code payloads.
Codes == { <<"c">> }

\* Event::Html payloads, each with what the directive syntax says it means.
HtmlInputs ==
    { [text |-> <<"<","!","-","-"," ","r","u","n","m","e",":","i","g","n","o","r","e"," ","-","-",">">>,
       kind |-> "Ignore", name |-> None],
      [text |-> <<"<","!","-","-"," ","R","u","n","m","e",":","S","k","i","p"," ","-","-",">","\n">>,
       kind |-> "Ignore", name |-> None],
      [text |-> <<"<","!","-","-"," ","r","u","n","m","e",":","n","a","m","e"," ","c"," ","-","-",">","\n">>,
       kind |-> "Name", name |-> Some(<<"c">>)],
      [text |-> <<"<","!","-","-"," ","r","u","n","m","e",":","n","a","m","e"," ","-","-",">">>,
       kind |-> "Plain", name |-> None],
      [text |-> <<"<","p",">">>,
       kind |-> "Plain", name |-> None] }

\* CodeBlockKind: Indented, or Fenced(info) with what the info string means.
CodeBlockKinds ==
    { [fenced |-> FALSE, info |-> <<>>, name |-> None, ignore |-> FALSE],
      [fenced |-> TRUE, info |-> <<>>, name |-> None, ignore |-> FALSE],
      [fenced |-> TRUE, info |-> <<"B","a","s","h">>, name |-> None, ignore |-> FALSE],
      [fenced |-> TRUE,
       info |-> <<"s","h"," ","r","u","n","m","e",":","n","a","m","e","=","i">>,
       name |-> Some(<<"i">>), ignore |-> FALSE],
      [fenced |-> TRUE,
       info |-> <<"p","y"," ","r","u","n","m","e",":","i","g","n","o","r","e"," ",
                  "r","u","n","m","e",":","n","a","m","e","=","j">>,
       name |-> Some(<<"j">>), ignore |-> TRUE] }

\* The tokens an info string may carry.
MaxTokens == 3

\* The tokens of the info strings: languages, the two skip markers, names
\* (one empty), a key that is no name, the name key without a value.
FenceTokens ==
    { <<"s","h">>, <<"P","y">>,
      <<"r","u","n","m","e",":","i","g","n","o","r","e">>,
      <<"R","U","N","M","E",":","S","k","i","p">>,
      <<"r","u","n","m","e",":","n","a","m","e","=","i">>,
      <<"R","u","n","m","e",":","N","a","m","e","=","J","=","k">>,
      <<"r","u","n","m","e",":","n","a","m","e","=">>,
      <<"r","u","n","m","e",":","n","a","m","e">>,
      <<"k","=","v">> }

\* The info strings of the fences: up to MaxTokens tokens in every order,
\* one space apart, or further apart and with white space around them.
FenceInfos ==
    { [tokens |-> ts, text |-> Join(ts, <<" ">>)] :
        ts \in UNION { [1..n -> FenceTokens] : n \in 0..MaxTokens } }
    \cup { [tokens |-> ts, text |-> <<" ">> \o Join(ts, <<"\t"," ">>) \o <<"\t">>] :
        ts \in UNION { [1..n -> FenceTokens] : n \in 0..MaxTokens } }

\* ---------------------------------------------------------- runner/mod.rs

\* CodeBlock::is_shell, were the language compared as it is written.
IsShellCaseSensitive(b) ==
    IF IsSome(b.language)
    THEN Trim(Unwrap(b.language))
            \in { <<"b","a","s","h">>, <<"s","h">>, <<"s","h","e","l","l">>, <<"z","s","h">> }
    ELSE TRUE

\* CodeBlock::is_shell
IsShell(b) ==
    IF IsSome(b.language)
    THEN ToAsciiLowercase(Trim(Unwrap(b.language)))
            \in { <<"b","a","s","h">>, <<"s","h">>, <<"s","h","e","l","l">>, <<"z","s","h">> }
    ELSE TRUE

RECURSIVE Lines(_)
\* str::lines: the pieces between "\n" (a "\r" before it dropped), with no
\* empty piece after a final "\n".
Lines(s) ==
    IF s = <<>> THEN <<>>
    ELSE IF \E i \in 1..Len(s) : s[i] = "\n"
    THEN LET k == CHOOSE i \in 1..Len(s) : s[i] = "\n" /\ \A j \in 1..(i - 1) : s[j] /= "\n"
             piece == SubSeq(s, 1, k - 1)
         IN << IF piece /= <<>> /\ piece[Len(piece)] = "\r"
               THEN SubSeq(piece, 1, Len(piece) - 1) ELSE piece >>
            \o Lines(SubSeq(s, k + 1, Len(s)))
    ELSE <<s>>

\* What the shlex word parser returns: the word, where it stopped, or an error.
ShlexWord(ok, word, next) == [ok |-> ok, word |-> word, next |-> next]

RECURSIVE ShlexParse(_, _, _, _)
\* shlex's parse_word, parse_double and parse_single: the word that starts at
\* s[i], read in mode "word", "double" or "single". (A backquote, which a
\* backslash also escapes between double quotes, is no character of the model.)
ShlexParse(s, i, mode, acc) ==
    IF mode = "single"
    THEN IF i > Len(s) THEN ShlexWord(FALSE, acc, i)
         ELSE IF s[i] = "'" THEN ShlexParse(s, i + 1, "word", acc)
         ELSE ShlexParse(s, i + 1, "single", Append(acc, s[i]))
    ELSE IF mode = "double"
    THEN IF i > Len(s) THEN ShlexWord(FALSE, acc, i)
         ELSE IF s[i] = "\""  THEN ShlexParse(s, i + 1, "word", acc)
         ELSE IF s[i] = "\\"
         THEN IF i + 1 > Len(s) THEN ShlexWord(FALSE, acc, i)
              ELSE IF s[i + 1] \in {"$", "\"", "\\"}
              THEN ShlexParse(s, i + 2, "double", Append(acc, s[i + 1]))
              ELSE IF s[i + 1] = "\n" THEN ShlexParse(s, i + 2, "double", acc)
              ELSE ShlexParse(s, i + 2, "double", acc \o <<"\\", s[i + 1]>>)
         ELSE ShlexParse(s, i + 1, "double", Append(acc, s[i]))
    ELSE IF i > Len(s) THEN ShlexWord(TRUE, acc, i)
         ELSE IF s[i] = "\"" THEN ShlexParse(s, i + 1, "double", acc)
         ELSE IF s[i] = "'" THEN ShlexParse(s, i + 1, "single", acc)
         ELSE IF s[i] = "\\"
         THEN IF i + 1 > Len(s) THEN ShlexWord(FALSE, acc, i)
              ELSE IF s[i + 1] = "\n" THEN ShlexParse(s, i + 2, "word", acc)
              ELSE ShlexParse(s, i + 2, "word", Append(acc, s[i + 1]))
         ELSE IF s[i] \in {" ", "\t", "\n"} THEN ShlexWord(TRUE, acc, i + 1)
         ELSE ShlexParse(s, i + 1, "word", Append(acc, s[i]))

RECURSIVE ShlexSkip(_, _)
\* The start of shlex's next(): whitespace and "#" comments before a word are
\* skipped; the result is where the word starts, or past the end.
ShlexSkip(s, i) ==
    IF i > Len(s) THEN i
    ELSE IF s[i] \in {" ", "\t", "\n"} THEN ShlexSkip(s, i + 1)
    ELSE IF s[i] = "#"
    THEN IF \E j \in (i + 1)..Len(s) : s[j] = "\n"
         THEN ShlexSkip(s, (CHOOSE j \in (i + 1)..Len(s) :
                               s[j] = "\n" /\ \A k \in (i + 1)..(j - 1) : s[k] /= "\n") + 1)
         ELSE Len(s) + 1
    ELSE i

RECURSIVE ShlexWords(_, _, _)
\* The words shlex yields from s[i] on; None once a word is in error.
ShlexWords(s, i, acc) ==
    LET start == ShlexSkip(s, i) IN
    IF start > Len(s) THEN Some(acc)
    ELSE LET w == ShlexParse(s, start, "word", <<>>) IN
         IF ~w.ok THEN None ELSE ShlexWords(s, w.next, Append(acc, w.word))

\* shlex::split: Some(argv), or None for a line that cannot be split.
ShlexSplit(s) == ShlexWords(s, 1, <<>>)

\* What execute does with a split line, were a line that cannot be split
\* passed over like a line with no word.
SplitStepLenient(args) ==
    IF ~IsSome(args) \/ Unwrap(args) = <<>> THEN "continue" ELSE "run"

\* What execute does with the result of shlex::split: a line that cannot be
\* split is an error (ok_or_else and ?), one with no word is passed over.
SplitStep(args) ==
    IF ~IsSome(args) THEN "error"
    ELSE IF Unwrap(args) = <<>> THEN "continue"
    ELSE "run"

\* BlockReport::from_skip, were the name, headings and language of the block
\* not copied into the report.
FromSkipBare(b, reason) ==
    [id |-> b.id, name |-> None, headings |-> <<>>, language |-> None,
     sandbox |-> None, duration_ms |-> 0,
     status |-> [tag |-> "Skipped", exit_code |-> None],
     skip_reason |-> Some(reason), stdout |-> None, stderr |-> None]

\* BlockReport::from_skip with the backend's label left in the report.
FromSkipLabelled(b, reason) ==
    [id |-> b.id, name |-> b.name, headings |-> b.headings, language |-> b.language,
     sandbox |-> Some(<<"h","o","s","t">>), duration_ms |-> 0,
     status |-> [tag |-> "Skipped", exit_code |-> None],
     skip_reason |-> Some(reason), stdout |-> None, stderr |-> None]

\* BlockReport::from_skip
FromSkip(b, reason) ==
    [id |-> b.id, name |-> b.name, headings |-> b.headings, language |-> b.language,
     sandbox |-> None, duration_ms |-> 0,
     status |-> [tag |-> "Skipped", exit_code |-> None],
     skip_reason |-> Some(reason), stdout |-> None, stderr |-> None]

\* format!("Language '{}' unsupported yet; add a plugin", language or "shell")
UnsupportedReason(b) ==
    <<"L","a","n","g","u","a","g","e"," ","'">>
    \o (IF IsSome(b.language) THEN Unwrap(b.language) ELSE <<"s","h","e","l","l">>)
    \o <<"'"," ","u","n","s","u","p","p","o","r","t","e","d"," ","y","e","t",";"," ","a","d","d"," ","a"," ","p","l","u","g","i","n">>

EmptyReason == <<"B","l","o","c","k"," ","e","m","p","t","y",";"," ","n","o","t","h","i","n","g"," ","t","o"," ","e","x","e","c","u","t","e">>

CommentsReason == <<"B","l","o","c","k"," ","o","n","l","y"," ","h","a","d"," ","c","o","m","m","e","n","t","s","/","b","l","a","n","k"," ","l","i","n","e","s">>

\* The checks at the head of execute with the language tested first.
SkipDecisionLanguageFirst(b) ==
    IF ~IsShell(b) THEN Some(UnsupportedReason(b))
    ELSE IF IsSome(b.skip_reason) THEN b.skip_reason
    ELSE IF Trim(b.content) = <<>> THEN Some(EmptyReason)
    ELSE None

\* The checks at the head of execute with the block's own skip reason not read.
SkipDecisionNoDirective(b) ==
    IF ~IsShell(b) THEN Some(UnsupportedReason(b))
    ELSE IF Trim(b.content) = <<>> THEN Some(EmptyReason)
    ELSE None

\* The three early returns of execute, in its order: Some(reason) to skip.
SkipDecision(b) ==
    IF IsSome(b.skip_reason) THEN b.skip_reason
    ELSE IF ~IsShell(b) THEN Some(UnsupportedReason(b))
    ELSE IF Trim(b.content) = <<>> THEN Some(EmptyReason)
    ELSE None

\* CommandTranscript::append_stdout and append_stderr, were "$ <command>"
\* written before every chunk.
AppendChunkHeaderEach(entry, command, chunk) ==
    IF chunk = <<>> THEN entry
    ELSE Some((IF IsSome(entry) THEN Unwrap(entry) ELSE <<>>)
              \o <<"$", " ">> \o command \o <<"\n">> \o chunk \o <<"\n">>)

\* CommandTranscript::append_stdout and append_stderr, were the entry begun
\* by an empty chunk too.
AppendChunkMarksEmpty(entry, command, chunk) ==
    Some((IF IsSome(entry) THEN Unwrap(entry) ELSE <<"$", " ">> \o command \o <<"\n">>)
         \o (IF chunk = <<>> THEN <<>> ELSE chunk \o <<"\n">>))

\* CommandTranscript::append_stdout and append_stderr, on one stream's entry:
\* an empty chunk changes nothing; the first chunk is preceded by "$ <command>".
AppendChunk(entry, command, chunk) ==
    IF chunk = <<>> THEN entry
    ELSE Some((IF IsSome(entry) THEN Unwrap(entry) ELSE <<"$", " ">> \o command \o <<"\n">>)
              \o chunk \o <<"\n">>)

\* What append_stdout and append_stderr return: whether the entry was created.
AppendIsFirst(entry, chunk) == chunk /= <<>> /\ ~IsSome(entry)

\* HumanStreamer::new: the label of the live console lines.
StreamerLabel(b) ==
    IF IsSome(b.name) THEN b.id \o <<" ", "(">> \o Unwrap(b.name) \o <<")">> ELSE b.id

\* HumanStreamer::on_stdout and on_stderr: the lines one chunk prints.
StreamerLines(b, kind, command, chunk, first) ==
    (IF first THEN <<[to |-> kind, header |-> TRUE, label |-> StreamerLabel(b),
                      text |-> command]>>
     ELSE <<>>)
    \o <<[to |-> kind, header |-> FALSE, label |-> <<>>, text |-> chunk]>>

RECURSIVE SinkFoldLiveOnly(_, _, _, _, _)
\* TranscriptSink, were a chunk that is streamed live not kept in the
\* transcript.
SinkFoldLiveOnly(b, live, command, calls, st) ==
    IF calls = <<>> THEN st
    ELSE LET c == Head(calls)
             entry == IF c.kind = "stdout" THEN st.stdout ELSE st.stderr
             first == AppendIsFirst(entry, c.chunk)
             grown == IF live THEN entry ELSE AppendChunk(entry, command, c.chunk)
         IN SinkFoldLiveOnly(b, live, command, Tail(calls),
              [stdout |-> IF c.kind = "stdout" THEN grown ELSE st.stdout,
               stderr |-> IF c.kind = "stderr" THEN grown ELSE st.stderr,
               printed |-> IF live
                           THEN st.printed \o StreamerLines(b, c.kind, command, c.chunk, first)
                           ELSE st.printed])

RECURSIVE SinkFoldOneTranscript(_, _, _, _, _)
\* TranscriptSink with on_stderr appending to the transcript of stdout: both
\* streams in one entry, in the order of the calls.
SinkFoldOneTranscript(b, live, command, calls, st) ==
    IF calls = <<>> THEN st
    ELSE LET c == Head(calls)
             first == AppendIsFirst(st.stdout, c.chunk)
         IN SinkFoldOneTranscript(b, live, command, Tail(calls),
              [stdout |-> AppendChunk(st.stdout, command, c.chunk),
               stderr |-> st.stderr,
               printed |-> IF live
                           THEN st.printed \o StreamerLines(b, c.kind, command, c.chunk, first)
                           ELSE st.printed])

RECURSIVE SinkFold(_, _, _, _, _)
\* TranscriptSink::on_stdout and on_stderr over the calls one command makes:
\* the transcript's two entries and the console lines, call after call.
SinkFold(b, live, command, calls, st) ==
    IF calls = <<>> THEN st
    ELSE LET c == Head(calls)
             entry == IF c.kind = "stdout" THEN st.stdout ELSE st.stderr
             first == AppendIsFirst(entry, c.chunk)
             grown == AppendChunk(entry, command, c.chunk)
         IN SinkFold(b, live, command, Tail(calls),
              [stdout |-> IF c.kind = "stdout" THEN grown ELSE st.stdout,
               stderr |-> IF c.kind = "stderr" THEN grown ELSE st.stderr,
               printed |-> IF live
                           THEN st.printed \o StreamerLines(b, c.kind, command, c.chunk, first)
                           ELSE st.printed])

\* CommandTranscript::new
NewTranscript == [stdout |-> None, stderr |-> None, printed |-> <<>>]

\* The status a failing command leaves, were the failure dropped.
FailedStatusLost(exit_code) == [tag |-> "Passed", exit_code |-> None]

\* BlockStatus::Failed { exit_code }
FailedStatus(exit_code) == [tag |-> "Failed", exit_code |-> exit_code]

\* The loop of execute without its break.
AfterCommandNoBreak(success) == "loop"

\* Where execute goes after a command: on to the next line, or out of the loop.
AfterCommand(success) == IF success THEN "loop" ELSE "break"

\* Sandbox::label, were the placeholder backend to answer with the label of
\* the backend it falls back on.
LabelOfFallback(kind) ==
    CASE kind = "Host" -> <<"h","o","s","t">>
      [] kind = "Docker" -> <<"d","o","c","k","e","r">>
      [] kind = "Wasm" -> <<"h","o","s","t">>

\* Sandbox::label of the three backends.
Label(kind) ==
    CASE kind = "Host" -> <<"h","o","s","t">>
      [] kind = "Docker" -> <<"d","o","c","k","e","r">>
      [] kind = "Wasm" -> <<"w","a","s","m","(","h","o","s","t","-","f","a","l","l","b","a","c","k",")">>

\* ------------------------------------------------------- inputs of execute

\* The chunks one command may hand to the sink.
MaxChunks == 2

\* The blocks execute is called on: id, name and headings as extract_blocks
\* makes them; every language, skip reason and content below.
ExecLanguages ==
    { None, Some(<<"s","h">>), Some(<<"S","h">>), Some(<<" ","Z","s","h">>), Some(<<"p","y">>) }

ExecSkipReasons == { None, Some(<<"o","p","t","e","d"," ","o","u","t">>) }

ExecContents ==
    { <<>>,
      <<" ","\n">>,
      <<"#"," ","c","\n","\n"," ","#","d">>,
      <<"a">>,
      <<"a","\n","b">>,
      <<"#","c","\n"," ","a"," ","'","x"," ","y","'","\r","\n","\n","b">>,
      <<"a","\n","'","b">>,
      <<"'","b","\n","a">> }

ExecBlocks ==
    { [id |-> FormatId(1), name |-> n, language |-> l, headings |-> <<<<"T">>>>,
       content |-> c, skip_reason |-> r] :
         n \in {None}, l \in ExecLanguages, c \in ExecContents, r \in ExecSkipReasons }

\* One sink call: the stream and the chunk.
SinkCalls ==
    { [kind |-> "stdout", chunk |-> <<"o">>],
      [kind |-> "stderr", chunk |-> <<"e">>],
      [kind |-> "stdout", chunk |-> <<"$"," ">>],
      [kind |-> "stdout", chunk |-> <<>>] }

\* The sequences of sink calls one command may make.
SinkCallSeqs == UNION { [1..n -> SinkCalls] : n \in 0..MaxChunks }

\* CommandStatus: how a spawned command may end.
CommandStatuses ==
    { [success |-> TRUE, exit_code |-> Some(0), duration |-> 1],
      [success |-> FALSE, exit_code |-> Some(1), duration |-> 1],
      [success |-> FALSE, exit_code |-> None, duration |-> 1] }

\* Sandbox::run: the sink calls it makes and the status it returns, or an
\* error: before any sink call when the process cannot be spawned, after any
\* number of them when a reader fails to read.
RunOutcomes ==
    { [error |-> "none", calls |-> cs, status |-> st] :
         cs \in SinkCallSeqs, st \in CommandStatuses }
    \cup { [error |-> "spawn", calls |-> <<>>, status |-> <<>>] }
    \cup { [error |-> "read", calls |-> cs, status |-> <<>>] : cs \in SinkCallSeqs }

\* -------------------------------------------------- runner/sandbox.rs

\* The two streams of a child, in the order their readers are spawned.
StreamKinds == <<"stdout", "stderr">>

RECURSIVE TrimLineEnd(_)
\* line.trim_end_matches(&['\r', '\n'][..])
TrimLineEnd(s) ==
    IF s /= <<>> /\ s[Len(s)] \in {"\r", "\n"}
    THEN TrimLineEnd(SubSeq(s, 1, Len(s) - 1))
    ELSE s

\* The reader's loop body with the test for an empty line left out.
ForwardedKeepEmpty(line) == Some(TrimLineEnd(line))

\* The reader's loop body on a line read: the chunk it sends, or None for a
\* line that is empty once trimmed (continue).
Forwarded(line) ==
    IF TrimLineEnd(line) = <<>> THEN None ELSE Some(TrimLineEnd(line))

\* A channel with room for one message, on which send waits.
SendWaitsBounded(queue) == Len(queue) >= 1

\* Whether Sender::send has to wait: never, mpsc::channel() has no bound.
SendWaits(queue) == FALSE

\* read_line has a line to return: the pipe holds a whole line, or the rest of
\* the stream up to its end.
Readable(pipe, open) ==
    pipe /= <<>> /\ (~open \/ Head(pipe).text[Len(Head(pipe).text)] = "\n")

\* CommandStatus::from_output, were success not taken from the exit status.
FromOutputAlwaysSuccess(exit_code) ==
    [success |-> TRUE, exit_code |-> exit_code, duration |-> 0]

\* CommandStatus::from_output
FromOutput(exit_code) ==
    [success |-> exit_code = Some(0), exit_code |-> exit_code, duration |-> 0]

\* A wait that returns without the child having exited (as try_wait does).
WaitReturnsAtOnce(child_state) == TRUE

\* Whether child.wait_with_output() returns: once the child has exited.
WaitReturns(child_state) == child_state = "exited"

\* drop(tx): the only senders left are those of the reader threads, so the
\* channel disconnects, and `for .. in rx` ends, once both threads are over.
Disconnected(threads) == \A s \in {"stdout", "stderr"} : threads[s] \in {"ended", "failed"}

\* handle.join() with the reader's own result dropped.
JoinedIgnoringError(reader) == "joined"

\* handle.join().expect(..)? on a reader that has ended: its error leaves
\* spawn_with_streaming at once.
Joined(reader) == IF reader = "failed" THEN "return" ELSE "joined"

\* ----------------------------------------- inputs of spawn_with_streaming

\* The lines one stream of a child may carry.
MaxLines == 2

\* What a child writes on a stream, a read_line at a time: a line with its
\* end, an empty line, bytes that are no UTF-8.
StdoutItems ==
    { [text |-> <<"o","\r","\n">>, utf8 |-> TRUE],
      [text |-> <<"\n">>, utf8 |-> TRUE],
      [text |-> <<"x","\n">>, utf8 |-> FALSE] }

StderrItems ==
    { [text |-> <<"e","\n">>, utf8 |-> TRUE],
      [text |-> <<"x","\n">>, utf8 |-> FALSE] }

\* The last bytes of a stream that do not end in a newline.
StdoutTails == { <<>>, <<[text |-> <<"q">>, utf8 |-> TRUE]>> }

\* A child: whether it can be spawned, what it writes on each stream, the
\* streams it never closes, and its exit code (None: killed by a signal).
ChildScripts ==
    { [spawns |-> TRUE, stdout |-> o \o tl, stderr |-> e, holds |-> h, exit_code |-> x] :
         o \in UNION { [1..n -> StdoutItems] : n \in 0..(MaxLines - 1) },
         tl \in StdoutTails,
         e \in UNION { [1..n -> StderrItems] : n \in 0..MaxLines },
         h \in { {}, {"stdout"}, {"stderr"} },
         x \in { Some(0), Some(1), None } }
    \cup { [spawns |-> TRUE, stdout |-> o, stderr |-> <<>>, holds |-> {}, exit_code |-> Some(0)] :
              o \in [1..MaxLines -> StdoutItems] }
    \cup { [spawns |-> FALSE, stdout |-> <<>>, stderr |-> <<>>, holds |-> {}, exit_code |-> None] }

\* ----------------------------------------------------------------- main.rs

\* A lookup that prefers the block whose id is the key to any block that
\* only carries the key as its name.
FindBlockIdFirst(found, key) ==
    LET ids == { i \in 1..Len(found) : found[i].id = key }
        names == { i \in 1..Len(found) : found[i].name = Some(key) }
    IN IF ids /= {} THEN Some(found[CHOOSE i \in ids : TRUE])
       ELSE IF names = {} THEN None
       ELSE Some(found[CHOOSE i \in names : \A j \in names : i <= j])

\* blocks.iter().find(..) falling back on the first block when none matches.
FindBlockOrFirst(found, key) ==
    LET hits == { i \in 1..Len(found) : found[i].id = key \/ found[i].name = Some(key) }
    IN IF found = <<>> THEN None
       ELSE IF hits = {} THEN Some(found[1])
       ELSE Some(found[CHOOSE i \in hits : \A j \in hits : i <= j])

\* blocks.iter().find(|block| block.id == key || block.name.as_deref() == Some(key))
FindBlock(found, key) ==
    LET hits == { i \in 1..Len(found) : found[i].id = key \/ found[i].name = Some(key) }
    IN IF hits = {} THEN None
       ELSE Some(found[CHOOSE i \in hits : \A j \in hits : i <= j])

\* The loop of run_blocks, were the block that execute failed on passed over.
AfterExecuteLenient(result) == "loop"

\* The loop of run_blocks, were it left on the first report that is Failed.
AfterExecuteStopsOnFailed(result) ==
    IF result.ok /\ result.value.status.tag /= "Failed" THEN "loop" ELSE "exit"

\* with_context(..)? on the result of execute in run_blocks: an error leaves
\* run_blocks, a report lets the loop go on.
AfterExecute(result) == IF result.ok THEN "loop" ELSE "exit"

\* status.with_duration(start.elapsed()): the time is taken as one unit.
WithDuration(st) == [st EXCEPT !.duration = 1]

\* What Sandbox::run returns from what spawn_with_streaming returned and the
\* calls the sink received meanwhile.
RunReturned(result, calls) ==
    IF result.ok
    THEN [error |-> "none", calls |-> calls, status |-> WithDuration(result.value)]
    ELSE [error |-> result.error.kind, calls |-> calls, status |-> <<>>]

\* ------------------------------------------------------- inputs of main

\* The blocks a document may hold.
MaxBlocks == 2

\* The code blocks of the documents: one command, two commands, a command and
\* a line that cannot be split, comments only; two of them under the same
\* name, one under a name that reads like the id of the second block; with
\* and without a shell language, under no heading, one heading or two.
RunShapes ==
    { [content |-> <<"a">>, name |-> None, language |-> None, headings |-> <<>>],
      [content |-> <<"#","c">>, name |-> Some(FormatId(2)),
       language |-> Some(<<"s","h">>), headings |-> <<<<"T">>>>],
      [content |-> <<"a","\n","b">>, name |-> Some(<<"n">>),
       language |-> Some(<<"s","h">>), headings |-> <<<<"T">>, <<"U">>>>],
      [content |-> <<"a","\n","'","b">>, name |-> Some(<<"n">>),
       language |-> None, headings |-> <<<<"T">>>>] }

\* What extract_blocks returns on the documents: the blocks, ids in discovery
\* order, or one of its two errors.
ExtractResults ==
    { Ok([i \in 1..Len(shapes) |->
            [id |-> FormatId(i), name |-> shapes[i].name, language |-> shapes[i].language,
             headings |-> shapes[i].headings, content |-> shapes[i].content, skip_reason |-> None]]) :
        shapes \in UNION { [1..n -> RunShapes] : n \in 0..MaxBlocks } }
    \cup { Err("markdown ended while inside code block"),
           Err("encountered closing code block without start") }

\* The target file: unreadable, or read and extracted.
Documents ==
    { [read |-> FALSE, result |-> Err("")] }
    \cup { [read |-> TRUE, result |-> r] : r \in ExtractResults }

\* --block: absent, an id, a name, a key no block has.
RunKeys == { None, Some(FormatId(2)), Some(<<"n">>), Some(<<"z">>) }

\* --format
ReportFormats == { "Human", "Json" }

\* --sandbox
SandboxChoices == { "Host", "Docker", "Wasm" }

\* The children of the commands of a run: one that prints and succeeds, one
\* that prints on both streams and succeeds, one that complains and fails,
\* one whose output cannot be read, one that cannot be spawned.
RunScripts ==
    { [spawns |-> TRUE, stdout |-> <<[text |-> <<"o","\r","\n">>, utf8 |-> TRUE]>>,
       stderr |-> <<>>, holds |-> {}, exit_code |-> Some(0)],
      [spawns |-> TRUE, stdout |-> <<[text |-> <<"p","\n">>, utf8 |-> TRUE]>>,
       stderr |-> <<[text |-> <<"w","\n">>, utf8 |-> TRUE]>>, holds |-> {},
       exit_code |-> Some(0)],
      [spawns |-> TRUE, stdout |-> <<>>,
       stderr |-> <<[text |-> <<"e","\n">>, utf8 |-> TRUE]>>, holds |-> {}, exit_code |-> Some(1)],
      [spawns |-> TRUE, stdout |-> <<[text |-> <<"o","\r","\n">>, utf8 |-> TRUE],
                                     [text |-> <<"x","\n">>, utf8 |-> FALSE]>>,
       stderr |-> <<>>, holds |-> {}, exit_code |-> Some(1)],
      [spawns |-> FALSE, stdout |-> <<>>, stderr |-> <<>>, holds |-> {}, exit_code |-> None] }

\* --------------------------------------------------- runner/docker.rs

\* The image DockerSandbox::new falls back on.
DefaultImage == <<"u","b","u","n","t","u",":","2","2",".","0","4">>

\* env::var("RUNME_DOCKER_IMAGE").ok(): the value of a variable that is set to
\* a string; None when it is unset or its value is not Unicode.
EnvVar(env) == IF env.set /\ env.unicode THEN Some(env.value) ELSE None

\* The image resolution of DockerSandbox::new with the environment asked first.
ResolveImageEnvFirst(image, env) ==
    IF IsSome(OrElse(EnvVar(env), image)) THEN Unwrap(OrElse(EnvVar(env), image))
    ELSE DefaultImage

\* image.or_else(|| env::var(..).ok()).unwrap_or_else(|| "ubuntu:22.04")
ResolveImage(image, env) ==
    IF IsSome(OrElse(image, EnvVar(env))) THEN Unwrap(OrElse(image, EnvVar(env)))
    ELSE DefaultImage

\* The command line DockerSandbox::run builds around argv.
DockerCommand(sandbox, argv) ==
    << <<"d","o","c","k","e","r">>, <<"r","u","n">>, <<"-","-","r","m">>,
       <<"-","-","n","e","t","w","o","r","k","=","n","o","n","e">>, <<"-","v">>,
       sandbox.mount_dir \o <<":">> \o <<"/","w","o","r","k","s","p","a","c","e">>,
       <<"-","w">>, <<"/","w","o","r","k","s","p","a","c","e">> >>
    \o sandbox.extra_args \o <<sandbox.image>> \o argv

\* HostSandbox::run up to spawn_with_streaming: the binary, its arguments and
\* the directory the child is started in.
HostCommand(workdir, argv) ==
    [words |-> <<Head(argv)>> \o Tail(argv), current_dir |-> Some(workdir)]

\* Sandbox::run of the backend that was instantiated, up to
\* spawn_with_streaming: WasmSandbox hands argv to its host_fallback.
SandboxCommand(kind, workdir, sandbox, argv) ==
    CASE kind = "Host" -> HostCommand(workdir, argv)
      [] kind = "Wasm" -> HostCommand(workdir, argv)
      [] kind = "Docker" -> [words |-> DockerCommand(Unwrap(sandbox), argv),
                             current_dir |-> None]

\* ------------------------------------------- inputs of DockerSandbox::new

\* The --docker-arg flags a command line may carry.
MaxDockerArgs == 2

\* --docker-image: absent, an image, the empty string.
DockerImages == { None, Some(<<"c",":","i">>), Some(<<>>) }

\* --docker-arg, repeated
DockerArgs == { <<"-","-","c","p","u","s","=","1">>, <<"-","q">> }

\* DockerConfig::from_cli
DockerConfigs ==
    { [image |-> i, extra_args |-> a] :
        i \in DockerImages, a \in UNION { [1..n -> DockerArgs] : n \in 0..MaxDockerArgs } }

\* RUNME_DOCKER_IMAGE: unset, set to an image, set to the empty string, set to
\* bytes that are not Unicode.
DockerEnvs ==
    { [set |-> FALSE, unicode |-> TRUE, value |-> <<>>],
      [set |-> TRUE, unicode |-> TRUE, value |-> <<"e",":","i">>],
      [set |-> TRUE, unicode |-> TRUE, value |-> <<>>],
      [set |-> TRUE, unicode |-> FALSE, value |-> <<>>] }

\* The working directory, and what canonicalize makes of it when it succeeds.
Workdir == <<".">>

CanonicalWorkdir == <<"/","r">>

\* The argument vectors DockerSandbox::run is given.
DockerArgvs == { << <<"a">> >>, << <<"a">>, <<"-","q">> >> }

\* ----------------------------------------------------------------- state

VARIABLES
    \* extract_blocks: its locals, in the order the function declares them
    blocks, heading_stack, active_heading, pending_skip, pending_name,
    collecting_block, block_language, block_inline_name, block_content, idx,
    \* what extract_blocks returned: None while the loop runs
    extracted,
    \* the events consumed so far, and the kind of the last one
    nEvents, lastEvent,
    \* what the document has said since the last block closed: the last comment
    \* name, the inline name of the last fence opened, whether a skip was asked
    seen,
    \* said[k]: what the document had said when the k-th block closed
    said,
    \* whether the event stream has a code block open
    fenceOpen,
    \* the levels of the headings committed so far, the last one last
    committed,
    \* execute: its arguments (the sandbox by its kind)
    block, stream_live, sandbox_kind,
    \* execute: where it is ("idle", "start", "loop", "break", "done") and the
    \* number of the content line the loop is at
    pc, lineNo,
    \* execute: its locals
    sandbox_label, total_duration, stdout_chunks, stderr_chunks, status,
    executed_lines,
    \* what execute returned: None while it runs
    returned,
    \* every call of sandbox.run so far: its line, command, argv, sink calls, result
    runCalls,
    \* the lines the live console has printed
    console,
    \* spawn_with_streaming: the child it is given, as the script of what the
    \* child does, and what is left of the script on each stream
    script, script_left,
    \* the child: "none", "running", "exited" (not waited on), "waited"
    child,
    \* per stream: whether the child holds it open, and the bytes in the pipe
    stream_open, pipes,
    \* per stream: its reader thread, "none", "reading", "ended" or "failed"
    readers,
    \* how many of the handles have been joined
    joined,
    \* the channel: the messages sent and not yet received
    rx,
    \* the calls the sink has received, in order
    sink_calls,
    \* where spawn_with_streaming is ("idle", "spawn", "recv", "join", "wait",
    \* "returned") and what it returned: None while it runs
    spawn_pc, spawn_result,
    \* main and run_blocks: where they are ("idle", "main", "select",
    \* "instantiate", "loop", "executing", "exit") and the run arguments
    run_pc, run_key, run_format,
    \* run_blocks: its locals, and the number in subset of the block the loop is at
    subset, reports, block_no,
    \* what main returned: None while it runs
    run_result,
    \* the ids of the blocks execute was called on, in order
    started,
    \* every command the backend has run in this run: its block, line and result
    run_log,
    \* DockerConfig and the environment variable RUNME_DOCKER_IMAGE
    docker_config, docker_env,
    \* the DockerSandbox: None until DockerSandbox::new has made it
    docker_sandbox,
    \* the command line DockerSandbox::run has built: None until it has
    docker_command,
    \* the info string of the fence that parse_fence_meta is asked about, with
    \* the tokens it was written from: None when none is
    fence_info

extractVars == <<blocks, heading_stack, active_heading, pending_skip, pending_name,
                 collecting_block, block_language, block_inline_name, block_content,
                 idx, extracted, nEvents, lastEvent, seen, said, fenceOpen, committed>>

execVars == <<block, stream_live, sandbox_kind, pc, lineNo, sandbox_label,
              total_duration, stdout_chunks, stderr_chunks, status, executed_lines,
              returned, runCalls, console>>

streamVars == <<script, script_left, child, stream_open, pipes, readers, joined, rx,
                sink_calls, spawn_pc, spawn_result>>

runVars == <<run_pc, run_key, run_format, subset, reports, block_no, run_result,
             started, run_log>>

dockerVars == <<docker_config, docker_env, docker_sandbox, docker_command>>

fenceVars == <<fence_info>>

vars == <<extractVars, execVars, streamVars, runVars, dockerVars, fenceVars>>

SeenNothing == [commentName |-> None, inlineName |-> None, skip |-> FALSE]

\* The locals of extract_blocks before the first event.
ExtractStart ==
    /\ blocks = <<>>
    /\ heading_stack = <<>>
    /\ active_heading = None
    /\ pending_skip = None
    /\ pending_name = None
    /\ collecting_block = FALSE
    /\ block_language = None
    /\ block_inline_name = None
    /\ block_content = <<>>
    /\ idx = 0
    /\ extracted = None
    /\ nEvents = 0
    /\ lastEvent = "none"
    /\ seen = SeenNothing
    /\ said = <<>>
    /\ fenceOpen = FALSE
    /\ committed = <<>>

\* execute is not running.
ExecIdle ==
    /\ block = None
    /\ stream_live = FALSE
    /\ sandbox_kind = "Host"
    /\ pc = "idle"
    /\ lineNo = 0
    /\ sandbox_label = <<>>
    /\ total_duration = 0
    /\ stdout_chunks = <<>>
    /\ stderr_chunks = <<>>
    /\ status = [tag |-> "Passed", exit_code |-> None]
    /\ executed_lines = 0
    /\ returned = None
    /\ runCalls = <<>>
    /\ console = <<>>

\* extract_blocks is called on a document.
\* spawn_with_streaming is not running.
StreamIdle ==
    /\ script = None
    /\ script_left = [s \in {"stdout", "stderr"} |-> <<>>]
    /\ child = "none"
    /\ stream_open = [s \in {"stdout", "stderr"} |-> FALSE]
    /\ pipes = [s \in {"stdout", "stderr"} |-> <<>>]
    /\ readers = [s \in {"stdout", "stderr"} |-> "none"]
    /\ joined = 0
    /\ rx = <<>>
    /\ sink_calls = <<>>
    /\ spawn_pc = "idle"
    /\ spawn_result = None

\* main is not running.
RunIdle ==
    /\ run_pc = "idle"
    /\ run_key = None
    /\ run_format = "Human"
    /\ subset = <<>>
    /\ reports = <<>>
    /\ block_no = 0
    /\ run_result = None
    /\ started = <<>>
    /\ run_log = <<>>

\* No Docker sandbox is asked for.
DockerIdle ==
    /\ docker_config = [image |-> None, extra_args |-> <<>>]
    /\ docker_env = [set |-> FALSE, unicode |-> TRUE, value |-> <<>>]
    /\ docker_sandbox = None
    /\ docker_command = None

\* parse_fence_meta is not asked about a fence of its own.
FenceIdle == fence_info = None

ExtractInit == ExtractStart /\ ExecIdle /\ StreamIdle /\ RunIdle /\ DockerIdle /\ FenceIdle

\* The loop is still reading events.
Reading == extracted = None /\ nEvents < MaxEvents

Consumed(kind) ==
    /\ nEvents' = nEvents + 1
    /\ lastEvent' = kind

\* Event::Start(Tag::Heading)
StartHeading ==
    /\ Reading
    /\ active_heading' = Some(<<>>)
    /\ Consumed("StartHeading")
    /\ UNCHANGED <<blocks, heading_stack, pending_skip, pending_name, collecting_block,
                   block_language, block_inline_name, block_content, idx, extracted,
                   seen, said, fenceOpen, committed>>
    /\ UNCHANGED <<execVars, streamVars, runVars, dockerVars, fenceVars>>

\* Event::Text(text)
Text ==
    /\ Reading
    /\ \E text \in Texts :
        IF IsSome(active_heading)
        THEN /\ active_heading' = Some(BuilderPush(Unwrap(active_heading), text))
             /\ UNCHANGED block_content
        ELSE IF collecting_block
        THEN /\ block_content' = block_content \o text
             /\ UNCHANGED active_heading
        ELSE UNCHANGED <<active_heading, block_content>>
    /\ Consumed("Text")
    /\ UNCHANGED <<blocks, heading_stack, pending_skip, pending_name, collecting_block,
                   block_language, block_inline_name, idx, extracted, seen, said,
                   fenceOpen, committed>>
    /\ UNCHANGED <<execVars, streamVars, runVars, dockerVars, fenceVars>>

\* Event::Code(text)
Code ==
    /\ Reading
    /\ \E text \in Codes :
        IF collecting_block
        THEN /\ block_content' = block_content \o text
             /\ UNCHANGED active_heading
        ELSE IF IsSome(active_heading)
        THEN /\ active_heading' = Some(BuilderPush(Unwrap(active_heading), text))
             /\ UNCHANGED block_content
        ELSE UNCHANGED <<active_heading, block_content>>
    /\ Consumed("Code")
    /\ UNCHANGED <<blocks, heading_stack, pending_skip, pending_name, collecting_block,
                   block_language, block_inline_name, idx, extracted, seen, said,
                   fenceOpen, committed>>
    /\ UNCHANGED <<execVars, streamVars, runVars, dockerVars, fenceVars>>

\* Event::Html(html)
Html ==
    /\ Reading
    /\ \E html \in HtmlInputs :
        LET d == ParseDirective(html.text) IN
        /\ pending_skip' =
              IF IsSome(d) /\ Unwrap(d).kind = "Ignore"
              THEN Some(IF IsSome(Unwrap(d).value) THEN Unwrap(Unwrap(d).value)
                        ELSE MarkedIgnore)
              ELSE pending_skip
        /\ pending_name' =
              IF IsSome(d) /\ Unwrap(d).kind = "Name" /\ IsSome(Unwrap(d).value)
              THEN Unwrap(d).value
              ELSE pending_name
        /\ seen' = [seen EXCEPT
                      !.commentName = IF html.kind = "Name" THEN html.name ELSE @,
                      !.skip = @ \/ html.kind = "Ignore"]
    /\ Consumed("Html")
    /\ UNCHANGED <<blocks, heading_stack, active_heading, collecting_block,
                   block_language, block_inline_name, block_content, idx, extracted,
                   said, fenceOpen, committed>>
    /\ UNCHANGED <<execVars, streamVars, runVars, dockerVars, fenceVars>>

\* Event::Start(Tag::CodeBlock(kind))
StartCodeBlock ==
    /\ Reading
    /\ \E kind \in CodeBlockKinds :
        LET meta == IF kind.fenced THEN ParseFenceMeta(kind.info) ELSE FenceMetaDefault IN
        /\ block_inline_name' = meta.name
        /\ pending_skip' = IF kind.fenced /\ meta.ignore THEN Some(MarkedIgnore)
                           ELSE pending_skip
        /\ block_language' = meta.language
        /\ seen' = [seen EXCEPT !.inlineName = kind.name, !.skip = @ \/ kind.ignore]
    /\ collecting_block' = TRUE
    /\ block_content' = <<>>
    /\ fenceOpen' = TRUE
    /\ Consumed("StartCodeBlock")
    /\ UNCHANGED <<blocks, heading_stack, active_heading, pending_name, idx, extracted,
                   said, committed>>
    /\ UNCHANGED <<execVars, streamVars, runVars, dockerVars, fenceVars>>

\* Event::End(TagEnd::Heading(level))
EndHeading ==
    /\ Reading
    /\ \E level \in HeadingLevels :
        IF IsSome(active_heading)
        THEN /\ heading_stack' = CommitHeading(heading_stack, Unwrap(active_heading),
                                               HeadingDepth(level))
             /\ committed' = Append(committed, HeadingDepth(level))
             /\ lastEvent' = "CommitHeading"
        ELSE /\ UNCHANGED <<heading_stack, committed>>
             /\ lastEvent' = "EndHeading"
    /\ active_heading' = None
    /\ nEvents' = nEvents + 1
    /\ UNCHANGED <<blocks, pending_skip, pending_name, collecting_block, block_language,
                   block_inline_name, block_content, idx, extracted, seen, said,
                   fenceOpen>>
    /\ UNCHANGED <<execVars, streamVars, runVars, dockerVars, fenceVars>>

\* Event::End(TagEnd::CodeBlock)
EndCodeBlock ==
    /\ Reading
    /\ IF ~collecting_block
       THEN /\ extracted' = Some(Err("encountered closing code block without start"))
            /\ UNCHANGED <<blocks, pending_skip, pending_name, collecting_block,
                           block_language, block_inline_name, block_content, idx>>
       ELSE /\ idx' = idx + 1
            /\ blocks' = Append(blocks,
                  [id |-> FormatId(idx + 1),
                   name |-> ResolveName(pending_name, block_inline_name),
                   language |-> block_language,
                   headings |-> StackTitles(heading_stack),
                   content |-> Trim(block_content),
                   skip_reason |-> pending_skip])
            /\ pending_name' = Taken(pending_name)
            /\ block_inline_name' = InlineAfterResolve(pending_name, block_inline_name)
            /\ pending_skip' = Taken(pending_skip)
            /\ collecting_block' = FALSE
            /\ block_language' = None
            /\ block_content' = <<>>
            /\ UNCHANGED extracted
    \* the record of the event stream: a close of an open block, or a stray one
    /\ IF fenceOpen
       THEN /\ lastEvent' = "EndCodeBlock"
            /\ said' = Append(said, seen)
            /\ seen' = SeenNothing
       ELSE /\ lastEvent' = "StrayEndCodeBlock"
            /\ UNCHANGED <<said, seen>>
    /\ nEvents' = nEvents + 1
    /\ fenceOpen' = FALSE
    /\ UNCHANGED <<heading_stack, active_heading, committed>>
    /\ UNCHANGED <<execVars, streamVars, runVars, dockerVars, fenceVars>>

\* The parser has no more events: the ensure! and the Ok(blocks) after the loop.
EndOfInput ==
    /\ extracted = None
    /\ extracted' = Some(Finish(collecting_block, blocks))
    /\ lastEvent' = "EndOfInput"
    /\ UNCHANGED <<blocks, heading_stack, active_heading, pending_skip, pending_name,
                   collecting_block, block_language, block_inline_name, block_content,
                   idx, nEvents, seen, said, fenceOpen, committed>>
    /\ UNCHANGED <<execVars, streamVars, runVars, dockerVars, fenceVars>>

\* extract_blocks, one event at a time.
ExtractNext ==
    \/ StartHeading
    \/ Text
    \/ Code
    \/ Html
    \/ StartCodeBlock
    \/ EndHeading
    \/ EndCodeBlock
    \/ EndOfInput

ExtractSpec == ExtractInit /\ [][ExtractNext]_vars

\* ------------------------------------------------------ under headings

\* The heading stacks extract_blocks goes on from: levels rising, as
\* commit_heading leaves them.
HeadingStacks ==
    { << [level |-> 1, title |-> <<"A">>], [level |-> 3, title |-> <<"B">>] >>,
      << [level |-> 2, title |-> <<"A">>], [level |-> 3, title |-> <<>>],
         [level |-> 5, title |-> <<"B">>] >> }

\* extract_blocks part of the way through a document: headings have been
\* committed, and a block under them may have been emitted.
HeadingInit ==
    /\ ExecIdle /\ StreamIdle /\ RunIdle /\ DockerIdle /\ FenceIdle
    /\ \E stack \in HeadingStacks : \E emitted \in BOOLEAN :
         /\ heading_stack = stack
         /\ committed = [i \in 1..Len(stack) |-> stack[i].level]
         /\ blocks = IF emitted
                     THEN << [id |-> FormatId(1), name |-> None, language |-> None,
                              headings |-> StackTitles(stack), content |-> <<>>,
                              skip_reason |-> None] >>
                     ELSE <<>>
         /\ idx = IF emitted THEN 1 ELSE 0
         /\ said = IF emitted THEN <<SeenNothing>> ELSE <<>>
    /\ active_heading = None
    /\ pending_skip = None
    /\ pending_name = None
    /\ collecting_block = FALSE
    /\ block_language = None
    /\ block_inline_name = None
    /\ block_content = <<>>
    /\ extracted = None
    /\ nEvents = 0
    /\ lastEvent = "none"
    /\ seen = SeenNothing
    /\ fenceOpen = FALSE

HeadingSpec == HeadingInit /\ [][ExtractNext]_vars

\* ------------------------------------------------------ parse_fence_meta

\* A document that opens with a fence: its info string is to be parsed.
FenceInit ==
    /\ ExtractStart
    /\ ExecIdle
    /\ StreamIdle
    /\ RunIdle
    /\ DockerIdle
    /\ fence_info \in { Some(i) : i \in FenceInfos }

\* Event::Start(Tag::CodeBlock(CodeBlockKind::Fenced(info))), the first
\* event of the document.
StartFence ==
    /\ Reading
    /\ nEvents = 0
    /\ LET meta == ParseFenceMeta(Unwrap(fence_info).text) IN
        /\ block_inline_name' = meta.name
        /\ pending_skip' = IF meta.ignore THEN Some(MarkedIgnore) ELSE pending_skip
        /\ block_language' = meta.language
    /\ collecting_block' = TRUE
    /\ block_content' = <<>>
    /\ fenceOpen' = TRUE
    /\ Consumed("StartCodeBlock")
    /\ UNCHANGED <<blocks, heading_stack, active_heading, pending_name, idx, extracted,
                   seen, said, committed>>
    /\ UNCHANGED <<execVars, streamVars, runVars, dockerVars, fenceVars>>

FenceNext ==
    \/ StartFence
    \/ EndCodeBlock

FenceSpec == FenceInit /\ [][FenceNext]_vars



\* ------------------------------------------------------------- execute

\* The report at the end of execute, were the backend's label left out of it.
BuildReportUnlabelled(b, label, duration, st, outs, errs) ==
    [id |-> b.id, name |-> b.name, headings |-> b.headings, language |-> b.language,
     sandbox |-> None, duration_ms |-> duration, status |-> st,
     skip_reason |-> None,
     stdout |-> IF outs /= <<>> THEN Some(Join(outs, <<"\n">>)) ELSE None,
     stderr |-> IF errs /= <<>> THEN Some(Join(errs, <<"\n">>)) ELSE None]

\* The BlockReport at the end of execute.
BuildReport(b, label, duration, st, outs, errs) ==
    [id |-> b.id, name |-> b.name, headings |-> b.headings, language |-> b.language,
     sandbox |-> Some(label), duration_ms |-> duration, status |-> st,
     skip_reason |-> None,
     stdout |-> IF outs /= <<>> THEN Some(Join(outs, <<"\n">>)) ELSE None,
     stderr |-> IF errs /= <<>> THEN Some(Join(errs, <<"\n">>)) ELSE None]

\* execute is called on a block, with a backend and the live flag.
ExecInit ==
    /\ ExtractStart
    /\ StreamIdle
    /\ RunIdle
    /\ DockerIdle
    /\ FenceIdle
    /\ block \in ExecBlocks
    /\ stream_live \in BOOLEAN
    /\ sandbox_kind \in {"Host", "Docker", "Wasm"}
    /\ pc = "start"
    /\ lineNo = 0
    /\ sandbox_label = <<>>
    /\ total_duration = 0
    /\ stdout_chunks = <<>>
    /\ stderr_chunks = <<>>
    /\ status = [tag |-> "Passed", exit_code |-> None]
    /\ executed_lines = 0
    /\ returned = None
    /\ runCalls = <<>>
    /\ console = <<>>

\* execute, up to its loop: the early returns, then the locals.
ExecStart ==
    /\ pc = "start"
    /\ LET skip == SkipDecision(block) IN
       IF IsSome(skip)
       THEN /\ returned' = Some(Ok(FromSkip(block, Unwrap(skip))))
            /\ pc' = "done"
            /\ UNCHANGED <<lineNo, sandbox_label, total_duration, stdout_chunks,
                           stderr_chunks, status, executed_lines>>
       ELSE /\ sandbox_label' = Label(sandbox_kind)
            /\ total_duration' = 0
            /\ stdout_chunks' = <<>>
            /\ stderr_chunks' = <<>>
            /\ status' = [tag |-> "Passed", exit_code |-> None]
            /\ executed_lines' = 0
            /\ lineNo' = 1
            /\ pc' = "loop"
            /\ UNCHANGED returned
    /\ UNCHANGED <<block, stream_live, sandbox_kind, runCalls, console>>
    /\ UNCHANGED <<extractVars, streamVars, runVars, dockerVars, fenceVars>>

\* execute from the call of sandbox.run on a command line to the end of that
\* turn of the loop: the sink has taken the calls, the error of run leaves
\* execute (?), a status is added to the locals.
Ran(trimmed, argv, out) ==
    LET t == SinkFold(block, stream_live, trimmed, out.calls, NewTranscript) IN
    /\ executed_lines' = executed_lines + 1
    /\ runCalls' = Append(runCalls,
          [line |-> lineNo, command |-> trimmed, argv |-> argv,
           calls |-> out.calls,
           result |-> IF out.error /= "none" THEN "error"
                      ELSE IF out.status.success THEN "success" ELSE "failure",
           error |-> out.error,
           exit_code |-> IF out.error = "none" THEN out.status.exit_code ELSE None])
    /\ console' = console \o t.printed
    /\ IF out.error /= "none"
       THEN /\ returned' = Some(Err([kind |-> "while executing", line |-> lineNo]))
            /\ pc' = "done"
            /\ UNCHANGED <<lineNo, total_duration, stdout_chunks, stderr_chunks, status>>
       ELSE /\ stdout_chunks' = IF IsSome(t.stdout)
                                THEN Append(stdout_chunks, Unwrap(t.stdout))
                                ELSE stdout_chunks
            /\ stderr_chunks' = IF IsSome(t.stderr)
                                THEN Append(stderr_chunks, Unwrap(t.stderr))
                                ELSE stderr_chunks
            /\ total_duration' = total_duration + out.status.duration
            /\ status' = IF ~out.status.success
                         THEN FailedStatus(out.status.exit_code)
                         ELSE status
            /\ pc' = AfterCommand(out.status.success)
            /\ lineNo' = lineNo + 1
            /\ UNCHANGED returned

\* One turn of the loop over block.content.lines().
ExecLine ==
    /\ pc = "loop"
    /\ lineNo <= Len(Lines(block.content))
    /\ LET trimmed == Trim(Lines(block.content)[lineNo])
           args == ShlexSplit(trimmed)
       IN
       IF trimmed = <<>> \/ StartsWith(trimmed, <<"#">>)
       THEN /\ lineNo' = lineNo + 1
            /\ UNCHANGED <<pc, total_duration, stdout_chunks, stderr_chunks, status,
                           executed_lines, returned, runCalls, console>>
       ELSE IF SplitStep(args) = "error"
       THEN /\ returned' = Some(Err([kind |-> "unable to parse line", line |-> lineNo]))
            /\ pc' = "done"
            /\ UNCHANGED <<lineNo, total_duration, stdout_chunks, stderr_chunks, status,
                           executed_lines, runCalls, console>>
       ELSE IF SplitStep(args) = "continue"
       THEN /\ lineNo' = lineNo + 1
            /\ UNCHANGED <<pc, total_duration, stdout_chunks, stderr_chunks, status,
                           executed_lines, returned, runCalls, console>>
       ELSE \E out \in RunOutcomes : Ran(trimmed, Unwrap(args), out)
    /\ UNCHANGED <<block, stream_live, sandbox_kind, sandbox_label>>
    /\ UNCHANGED <<extractVars, streamVars, runVars, dockerVars, fenceVars>>

\* execute after its loop: the comment-only skip, or the report.
ExecFinish ==
    /\ \/ pc = "break"
       \/ pc = "loop" /\ lineNo > Len(Lines(block.content))
    /\ returned' = Some(Ok(IF executed_lines = 0
                           THEN FromSkip(block, CommentsReason)
                           ELSE BuildReport(block, sandbox_label, total_duration, status,
                                            stdout_chunks, stderr_chunks)))
    /\ pc' = "done"
    /\ UNCHANGED <<block, stream_live, sandbox_kind, lineNo, sandbox_label,
                   total_duration, stdout_chunks, stderr_chunks, status, executed_lines,
                   runCalls, console>>
    /\ UNCHANGED <<extractVars, streamVars, runVars, dockerVars, fenceVars>>

\* execute, one step at a time.
ExecNext ==
    \/ ExecStart
    \/ ExecLine
    \/ ExecFinish

ExecSpec == ExecInit /\ [][ExecNext]_vars

\* ------------------------------------------------ spawn_with_streaming

\* spawn_with_streaming is called on a command, here the child it will be.
StreamInit ==
    /\ ExtractStart
    /\ ExecIdle
    /\ RunIdle
    /\ DockerIdle
    /\ FenceIdle
    /\ script \in ChildScripts
    /\ script_left = [s \in {"stdout", "stderr"} |-> script[s]]
    /\ child = "none"
    /\ stream_open = [s \in {"stdout", "stderr"} |-> FALSE]
    /\ pipes = [s \in {"stdout", "stderr"} |-> <<>>]
    /\ readers = [s \in {"stdout", "stderr"} |-> "none"]
    /\ joined = 0
    /\ rx = <<>>
    /\ sink_calls = <<>>
    /\ spawn_pc = "spawn"
    /\ spawn_result = None

\* command.spawn()?, the channel, the two reader threads, drop(tx).
Spawn ==
    /\ spawn_pc = "spawn"
    /\ IF ~script.spawns
       THEN /\ spawn_result' = Some(Err([kind |-> "spawn", stream |-> ""]))
            /\ spawn_pc' = "returned"
            /\ UNCHANGED <<child, stream_open, readers, pipes>>
       ELSE /\ child' = "running"
            /\ stream_open' = [s \in {"stdout", "stderr"} |-> TRUE]
            /\ readers' = [s \in {"stdout", "stderr"} |-> "reading"]
            /\ spawn_pc' = "recv"
            /\ pipes' = [s \in {"stdout", "stderr"} |-> <<>>]
            /\ UNCHANGED spawn_result
    /\ UNCHANGED <<script, script_left, joined, rx, sink_calls>>
    /\ UNCHANGED <<extractVars, execVars, runVars, dockerVars, fenceVars>>

\* The child writes the next bytes of its script on a stream; they are lost
\* when the reader of the stream has gone.
ChildWrite(s) ==
    /\ child = "running" /\ stream_open[s]
    /\ script_left[s] /= <<>>
    /\ script_left' = [script_left EXCEPT ![s] = Tail(@)]
    /\ pipes' = IF readers[s] = "reading"
                THEN [pipes EXCEPT ![s] = Append(@, Head(script_left[s]))]
                ELSE pipes
    /\ UNCHANGED <<script, child, stream_open, readers, joined, rx, sink_calls,
                   spawn_pc, spawn_result>>
    /\ UNCHANGED <<extractVars, execVars, runVars, dockerVars, fenceVars>>

\* The child closes a stream it has written all of, unless it holds it open.
ChildClose(s) ==
    /\ child = "running" /\ stream_open[s]
    /\ script_left[s] = <<>>
    /\ s \notin script.holds
    /\ stream_open' = [stream_open EXCEPT ![s] = FALSE]
    /\ UNCHANGED <<script, script_left, child, pipes, readers, joined, rx, sink_calls,
                   spawn_pc, spawn_result>>
    /\ UNCHANGED <<extractVars, execVars, runVars, dockerVars, fenceVars>>

\* The child exits, its streams closed.
ChildExit ==
    /\ child = "running"
    /\ \A s \in {"stdout", "stderr"} : ~stream_open[s]
    /\ child' = "exited"
    /\ UNCHANGED <<script, script_left, stream_open, pipes, readers, joined, rx,
                   sink_calls, spawn_pc, spawn_result>>
    /\ UNCHANGED <<extractVars, execVars, runVars, dockerVars, fenceVars>>

\* One turn of a reader thread's loop: read_line, then end of stream (break),
\* a read error (?), an empty line (continue) or a send.
ReadLine(s) ==
    /\ readers[s] = "reading"
    /\ IF pipes[s] = <<>>
       THEN /\ ~stream_open[s]
            /\ readers' = [readers EXCEPT ![s] = "ended"]
            /\ UNCHANGED <<pipes, rx>>
       ELSE /\ Readable(pipes[s], stream_open[s])
            /\ LET line == Head(pipes[s]) IN
               IF ~line.utf8
               THEN /\ readers' = [readers EXCEPT ![s] = "failed"]
                    /\ pipes' = [pipes EXCEPT ![s] = <<>>]
                    /\ UNCHANGED rx
               ELSE IF Forwarded(line.text) = None
               THEN /\ pipes' = [pipes EXCEPT ![s] = Tail(@)]
                    /\ UNCHANGED <<readers, rx>>
               ELSE /\ ~SendWaits(rx)
                    /\ IF spawn_pc = "recv"
                       THEN /\ rx' = Append(rx, [kind |-> s, chunk |-> Unwrap(Forwarded(line.text))])
                            /\ pipes' = [pipes EXCEPT ![s] = Tail(@)]
                            /\ UNCHANGED readers
                       ELSE /\ readers' = [readers EXCEPT ![s] = "failed"]
                            /\ pipes' = [pipes EXCEPT ![s] = <<>>]
                            /\ UNCHANGED rx
    /\ UNCHANGED <<script, script_left, child, stream_open, joined, sink_calls,
                   spawn_pc, spawn_result>>
    /\ UNCHANGED <<extractVars, execVars, runVars, dockerVars, fenceVars>>

\* One turn of `for (kind, msg) in rx`: a message goes to the sink; the loop
\* ends once the channel is empty and both readers have dropped their sender.
Recv ==
    /\ spawn_pc = "recv"
    /\ IF rx /= <<>>
       THEN /\ sink_calls' = Append(sink_calls, [kind |-> Head(rx).kind, chunk |-> Head(rx).chunk])
            /\ rx' = Tail(rx)
            /\ UNCHANGED spawn_pc
       ELSE /\ Disconnected(readers)
            /\ spawn_pc' = "join"
            /\ UNCHANGED <<sink_calls, rx>>
    /\ UNCHANGED <<script, script_left, child, stream_open, pipes, readers, joined,
                   spawn_result>>
    /\ UNCHANGED <<extractVars, execVars, runVars, dockerVars, fenceVars>>

\* One turn of `for handle in handles`: join the next reader; its error
\* returns from spawn_with_streaming.
JoinHandle ==
    /\ spawn_pc = "join"
    /\ LET h == StreamKinds[joined + 1] IN
       /\ readers[h] \in {"ended", "failed"}
       /\ joined' = joined + 1
       /\ IF Joined(readers[h]) = "return"
          THEN /\ spawn_result' = Some(Err([kind |-> "read", stream |-> h]))
               /\ spawn_pc' = "returned"
          ELSE /\ spawn_pc' = IF joined + 1 = Len(StreamKinds) THEN "wait" ELSE "join"
               /\ UNCHANGED spawn_result
    /\ UNCHANGED <<script, script_left, child, stream_open, pipes, readers, rx, sink_calls>>
    /\ UNCHANGED <<extractVars, execVars, runVars, dockerVars, fenceVars>>

\* child.wait_with_output()? and the status returned.
WaitWithOutput ==
    /\ spawn_pc = "wait"
    /\ WaitReturns(child)
    /\ child' = IF child = "exited" THEN "waited" ELSE child
    /\ spawn_result' = Some(Ok(FromOutput(script.exit_code)))
    /\ spawn_pc' = "returned"
    /\ UNCHANGED <<script, script_left, stream_open, pipes, readers, joined, rx, sink_calls>>
    /\ UNCHANGED <<extractVars, execVars, runVars, dockerVars, fenceVars>>

\* spawn_with_streaming, its two readers and the child, one step at a time.
StreamNext ==
    \/ Spawn
    \/ \E s \in {"stdout", "stderr"} : ChildWrite(s)
    \/ \E s \in {"stdout", "stderr"} : ChildClose(s)
    \/ ChildExit
    \/ \E s \in {"stdout", "stderr"} : ReadLine(s)
    \/ Recv
    \/ JoinHandle
    \/ WaitWithOutput

StreamSpec == StreamInit /\ [][StreamNext]_vars

\* The threads of spawn_with_streaming are scheduled fairly; the child is not
\* made to write, close or exit.
StreamFairSpec ==
    /\ StreamSpec
    /\ WF_vars(ReadLine("stdout"))
    /\ WF_vars(ReadLine("stderr"))
    /\ WF_vars(Recv)
    /\ WF_vars(JoinHandle)
    /\ WF_vars(WaitWithOutput)

\* ------------------------------------------------- main and run_blocks

\* main is started on a target, with --block and --format.
RunInit ==
    /\ ExtractStart
    /\ ExecIdle
    /\ StreamIdle
    /\ DockerIdle
    /\ FenceIdle
    /\ run_pc = "main"
    /\ run_key \in RunKeys
    /\ run_format \in ReportFormats
    /\ subset = <<>>
    /\ reports = <<>>
    /\ block_no = 0
    /\ run_result = None
    /\ started = <<>>
    /\ run_log = <<>>

\* main up to its call of run_blocks: read the target, extract its blocks,
\* each with ? .
Main ==
    /\ run_pc = "main"
    /\ \E d \in Documents :
         IF ~d.read
         THEN /\ run_result' = Some(Err("while reading"))
              /\ run_pc' = "exit"
              /\ UNCHANGED extracted
         ELSE /\ extracted' = Some(d.result)
              /\ IF d.result.ok
                 THEN run_pc' = "select" /\ UNCHANGED run_result
                 ELSE run_pc' = "exit" /\ run_result' = Some(Err(d.result.error))
    /\ UNCHANGED <<blocks, heading_stack, active_heading, pending_skip, pending_name,
                   collecting_block, block_language, block_inline_name, block_content,
                   idx, nEvents, lastEvent, seen, said, fenceOpen, committed>>
    /\ UNCHANGED <<run_key, run_format, subset, reports, block_no, started, run_log>>
    /\ UNCHANGED <<execVars, streamVars, dockerVars, fenceVars>>

\* run_blocks: the subset to run, all blocks or the one the key finds.
SelectSubset ==
    /\ run_pc = "select"
    /\ LET found == Unwrap(extracted).value IN
       IF run_key = None
       THEN subset' = found /\ run_pc' = "instantiate" /\ UNCHANGED run_result
       ELSE IF FindBlock(found, Unwrap(run_key)) = None
       THEN /\ run_result' = Some(Err("unknown block id or name"))
            /\ run_pc' = "exit"
            /\ UNCHANGED subset
       ELSE /\ subset' = FindBlock(found, Unwrap(run_key))
            /\ run_pc' = "instantiate"
            /\ UNCHANGED run_result
    /\ UNCHANGED <<run_key, run_format, reports, block_no, started, run_log>>
    /\ UNCHANGED <<extractVars, execVars, streamVars, dockerVars, fenceVars>>

\* run_blocks: instantiate_sandbox, stream_live, the empty reports.
InstantiateSandbox ==
    /\ run_pc = "instantiate"
    /\ \E kind \in SandboxChoices : sandbox_kind' = kind
    /\ stream_live' = (run_format = "Human")
    /\ reports' = <<>>
    /\ block_no' = 1
    /\ run_pc' = "loop"
    /\ IF sandbox_kind' = "Docker"
       THEN docker_sandbox' = Some([mount_dir |-> CanonicalWorkdir,
                                    image |-> ResolveImage(docker_config.image, docker_env),
                                    extra_args |-> docker_config.extra_args])
       ELSE UNCHANGED docker_sandbox
    /\ UNCHANGED <<docker_config, docker_env, docker_command>>
    /\ UNCHANGED <<block, pc, lineNo, sandbox_label, total_duration, stdout_chunks,
                   stderr_chunks, status, executed_lines, returned, runCalls, console>>
    /\ UNCHANGED <<run_key, run_format, subset, run_result, started, run_log>>
    /\ UNCHANGED <<extractVars, streamVars, fenceVars>>

\* run_blocks: one turn of its loop, up to the call of execute.
CallExecute ==
    /\ run_pc = "loop"
    /\ block_no <= Len(subset)
    /\ block' = subset[block_no]
    /\ pc' = "start"
    /\ lineNo' = 0
    /\ returned' = None
    /\ runCalls' = <<>>
    /\ started' = Append(started, subset[block_no].id)
    /\ run_pc' = "executing"
    /\ UNCHANGED <<stream_live, sandbox_kind, sandbox_label, total_duration, stdout_chunks,
                   stderr_chunks, status, executed_lines, console>>
    /\ UNCHANGED <<run_key, run_format, subset, reports, block_no, run_result, run_log>>
    /\ UNCHANGED <<extractVars, streamVars, dockerVars, fenceVars>>

\* A turn of the loop of execute that does not reach sandbox.run.
ExecLineOnly == ExecLine /\ runCalls' = runCalls

\* execute calls sandbox.run on a command line: spawn_with_streaming is
\* entered with the command's child.
SpawnCommand ==
    /\ run_pc = "executing"
    /\ pc = "loop"
    /\ lineNo <= Len(Lines(block.content))
    /\ LET trimmed == Trim(Lines(block.content)[lineNo]) IN
       /\ trimmed /= <<>> /\ ~StartsWith(trimmed, <<"#">>)
       /\ SplitStep(ShlexSplit(trimmed)) = "run"
    /\ pc' = "running"
    /\ \E c \in RunScripts :
         /\ script' = c
         /\ script_left' = [s \in {"stdout", "stderr"} |-> c[s]]
    /\ joined' = 0
    /\ rx' = <<>>
    /\ sink_calls' = <<>>
    /\ spawn_pc' = "spawn"
    /\ spawn_result' = None
    /\ UNCHANGED <<child, stream_open, pipes, readers>>
    /\ UNCHANGED <<block, stream_live, sandbox_kind, lineNo, sandbox_label, total_duration,
                   stdout_chunks, stderr_chunks, status, executed_lines, returned,
                   runCalls, console>>
    /\ UNCHANGED <<extractVars, runVars, dockerVars, fenceVars>>

\* sandbox.run has returned to execute.
CollectCommand ==
    /\ pc = "running"
    /\ spawn_pc = "returned"
    /\ LET trimmed == Trim(Lines(block.content)[lineNo])
           out == RunReturned(Unwrap(spawn_result), sink_calls)
       IN /\ Ran(trimmed, Unwrap(ShlexSplit(trimmed)), out)
          /\ run_log' = Append(run_log, [block |-> block.id, line |-> lineNo,
                                          script |-> script,
                                          command |-> SandboxCommand(sandbox_kind, Workdir,
                                                         docker_sandbox,
                                                         Unwrap(ShlexSplit(trimmed))),
                                          error |-> out.error,
                                          success |-> out.error = "none" /\ out.status.success])
    /\ UNCHANGED <<block, stream_live, sandbox_kind, sandbox_label>>
    /\ UNCHANGED <<run_pc, run_key, run_format, subset, reports, block_no, run_result, started>>
    /\ UNCHANGED <<extractVars, streamVars, dockerVars, fenceVars>>

\* run_blocks: execute has returned; its error leaves run_blocks, its report
\* is pushed.
ReturnExecute ==
    /\ run_pc = "executing"
    /\ pc = "done"
    /\ LET result == Unwrap(returned) IN
       /\ run_pc' = AfterExecute(result)
       /\ block_no' = block_no + 1
       /\ IF result.ok
          THEN reports' = Append(reports, result.value)
          ELSE UNCHANGED reports
       /\ IF AfterExecute(result) = "exit"
          THEN run_result' = Some(Err([kind |-> "while running", id |-> block.id]))
          ELSE UNCHANGED run_result
    /\ UNCHANGED <<run_key, run_format, subset, started, run_log>>
    /\ UNCHANGED <<extractVars, execVars, streamVars, dockerVars, fenceVars>>

\* run_blocks after its loop: the reports are printed and Ok(()) returned.
PrintReports ==
    /\ run_pc = "loop"
    /\ block_no > Len(subset)
    /\ run_result' = Some(Ok(reports))
    /\ run_pc' = "exit"
    /\ UNCHANGED <<run_key, run_format, subset, reports, block_no, started, run_log>>
    /\ UNCHANGED <<extractVars, execVars, streamVars, dockerVars, fenceVars>>

\* A run of the program, one step at a time.
RunNext ==
    \/ Main
    \/ SelectSubset
    \/ InstantiateSandbox
    \/ CallExecute
    \/ ExecStart
    \/ ExecLineOnly
    \/ SpawnCommand
    \/ Spawn
    \/ \E s \in {"stdout", "stderr"} : ChildWrite(s)
    \/ \E s \in {"stdout", "stderr"} : ChildClose(s)
    \/ ChildExit
    \/ \E s \in {"stdout", "stderr"} : ReadLine(s)
    \/ Recv
    \/ JoinHandle
    \/ WaitWithOutput
    \/ CollectCommand
    \/ ExecFinish
    \/ ReturnExecute
    \/ PrintReports

RunSpec == RunInit /\ [][RunNext]_vars

\* ------------------------------------------------------ DockerSandbox

\* A Docker sandbox is asked for, with a configuration and an environment.
DockerInit ==
    /\ ExtractStart
    /\ ExecIdle
    /\ StreamIdle
    /\ RunIdle
    /\ docker_config \in DockerConfigs
    /\ docker_env \in DockerEnvs
    /\ docker_sandbox = None
    /\ docker_command = None
    /\ FenceIdle

\* DockerSandbox::new(workdir, docker.image.clone(), docker.extra_args.clone())
NewDockerSandbox ==
    /\ docker_sandbox = None
    /\ \E dir \in {CanonicalWorkdir, Workdir} :
         docker_sandbox' = Some([mount_dir |-> dir,
                                 image |-> ResolveImage(docker_config.image, docker_env),
                                 extra_args |-> docker_config.extra_args])
    /\ UNCHANGED <<docker_config, docker_env, docker_command>>
    /\ UNCHANGED <<extractVars, execVars, streamVars, runVars, fenceVars>>

\* DockerSandbox::run up to spawn_with_streaming: the command line.
DockerRun ==
    /\ docker_sandbox /= None
    /\ docker_command = None
    /\ \E argv \in DockerArgvs :
         docker_command' = Some(DockerCommand(Unwrap(docker_sandbox), argv))
    /\ UNCHANGED <<docker_config, docker_env, docker_sandbox>>
    /\ UNCHANGED <<extractVars, execVars, streamVars, runVars, fenceVars>>

DockerNext ==
    \/ NewDockerSandbox
    \/ DockerRun

DockerSpec == DockerInit /\ [][DockerNext]_vars

\* ------------------------------------------- properties of extract_blocks

Last(q) == q[Len(q)]

IsDigits(ds) == \A i \in 1..Len(ds) : \E d \in 1..10 : DigitChars[d] = ds[i]

RECURSIVE DigitsValue(_)
\* The number a string of decimal digits denotes.
DigitsValue(ds) ==
    IF ds = <<>> THEN 0
    ELSE 10 * DigitsValue(SubSeq(ds, 1, Len(ds) - 1))
         + (CHOOSE d \in 0..9 : DigitChars[d + 1] = ds[Len(ds)])

\* The digits of an id, after its "block-".
IdDigits(id) == SubSeq(id, 7, Len(id))

\* id is "block-" and then k in decimal, zero-padded to three digits.
IsIdOf(id, k) ==
    /\ StartsWith(id, <<"b","l","o","c","k","-">>)
    /\ IsDigits(IdDigits(id))
    /\ Len(IdDigits(id)) >= 3
    /\ (k <= 999 => Len(IdDigits(id)) = 3)
    /\ DigitsValue(IdDigits(id)) = k

\* Block numbers on both sides of the three-digit width.
IdSamples == {1, 9, 10, 99, 100, 999, 1000, 1001, 12345}

\* C1: every close of an open code block yields one block; the k-th block's id
\* is "block-" followed by k zero-padded to three digits; the ids are pairwise
\* distinct and their numbers strictly increase along the list, whatever
\* headings, directives, names and skip flags came in between; a successful
\* extraction returns exactly that list.
C1_IdsFollowDiscoveryOrder ==
    /\ Len(blocks) = Len(said)
    /\ \A k \in 1..Len(blocks) : IsIdOf(blocks[k].id, k)
    /\ \A j, k \in 1..Len(blocks) :
          j < k => /\ blocks[j].id /= blocks[k].id
                   /\ DigitsValue(IdDigits(blocks[j].id)) < DigitsValue(IdDigits(blocks[k].id))
    /\ (IsSome(extracted) /\ Unwrap(extracted).ok) => Unwrap(extracted).value = blocks
    /\ \A k \in IdSamples : IsIdOf(FormatId(k), k)

\* C1's case: two blocks extracted, the first skipped, the second named.
C1_Witness ==
    /\ IsSome(extracted) /\ Unwrap(extracted).ok
    /\ Len(Unwrap(extracted).value) = 2
    /\ IsSome(Unwrap(extracted).value[1].skip_reason)
    /\ IsSome(Unwrap(extracted).value[2].name)

\* C6: the name of the k-th block is the comment directive's name when the
\* document gave one since the previous block closed, otherwise the inline name
\* of the fence that opened the block, otherwise none.
C6_NamePrecedence ==
    \A k \in 1..Len(blocks) :
        k <= Len(said) =>
            blocks[k].name = IF IsSome(said[k].commentName) THEN said[k].commentName
                             ELSE said[k].inlineName

\* C6's case: a block that had a comment name and a different inline name.
C6_Witness ==
    \E k \in 1..Len(blocks) :
        /\ IsSome(said[k].commentName) /\ IsSome(said[k].inlineName)
        /\ said[k].commentName /= said[k].inlineName
        /\ blocks[k].name = said[k].commentName

\* C7: a block is skipped exactly when a skip directive or an inline ignore flag
\* came since the previous block closed, and named exactly when a name came since
\* then; right after a block closes, no pending name and no pending skip reason
\* is left for a later block.
C7_DirectiveScope ==
    /\ lastEvent = "EndCodeBlock" => pending_name = None /\ pending_skip = None
    /\ \A k \in 1..Len(blocks) :
          k <= Len(said) =>
            /\ IsSome(blocks[k].skip_reason) <=> said[k].skip
            /\ IsSome(blocks[k].name) <=>
                  (IsSome(said[k].commentName) \/ IsSome(said[k].inlineName))

\* C7's case: a block with a comment name, an inline name and a skip, followed
\* by a block the document said nothing about.
C7_Witness ==
    /\ lastEvent = "EndCodeBlock"
    /\ Len(blocks) = 2
    /\ IsSome(said[1].commentName) /\ IsSome(said[1].inlineName) /\ said[1].skip
    /\ said[2] = SeenNothing
    /\ blocks[2].name = None /\ blocks[2].skip_reason = None

\* C8: the levels of the heading stack strictly increase from bottom to top (so
\* no level occurs twice); right after a heading of level L is committed it is
\* the top entry and every other entry has a level below L.
C8_HeadingStack ==
    /\ \A i, j \in 1..Len(heading_stack) :
          i < j => heading_stack[i].level < heading_stack[j].level
    /\ lastEvent = "CommitHeading" =>
          /\ heading_stack /= <<>>
          /\ Last(heading_stack).level = Last(committed)
          /\ \A i \in 1..(Len(heading_stack) - 1) :
                heading_stack[i].level < Last(committed)

\* C8's case: a heading committed after a heading of the same or a deeper level.
C8_Witness ==
    /\ lastEvent = "CommitHeading"
    /\ Len(committed) >= 2
    /\ committed[Len(committed) - 1] >= Last(committed)

\* C9: extract_blocks returns an error, and no block list, exactly when a close
\* arrives with no code block open or the input ends with one open; it goes on
\* after every other event, and at the end of the input it succeeds whatever
\* directive is still pending.
C9_ExtractErrors ==
    /\ lastEvent = "StrayEndCodeBlock" =>
          IsSome(extracted) /\ ~Unwrap(extracted).ok /\ Unwrap(extracted).value = <<>>
    /\ lastEvent = "EndOfInput" =>
          /\ IsSome(extracted)
          /\ Unwrap(extracted).ok <=> ~fenceOpen
          /\ Unwrap(extracted).value = IF fenceOpen THEN <<>> ELSE blocks
    /\ lastEvent \notin {"StrayEndCodeBlock", "EndOfInput"} => extracted = None

\* C9's case: the input ended with a name and a skip directive still pending.
C9_Witness ==
    /\ IsSome(extracted) /\ Unwrap(extracted).ok
    /\ IsSome(pending_name) /\ IsSome(pending_skip)


\* ------------------------------------------------- properties of execute

\* execute has returned a report.
Reported == IsSome(returned) /\ Unwrap(returned).ok

\* The report execute returned.
Report == Unwrap(returned).value

\* The lines of a content that are commands: trimmed, not blank, not a comment.
CommandLines(content) ==
    SelectSeq([i \in 1..Len(Lines(content)) |-> Trim(Lines(content)[i])],
              LAMBDA l : l /= <<>> /\ l[1] /= "#")

\* A language execute runs: none, or one of the four shell names in any case.
ShellLanguage(language) ==
    \/ language = None
    \/ ToAsciiLowercase(Trim(Unwrap(language)))
          \in { <<"b","a","s","h">>, <<"s","h">>, <<"s","h","e","l","l">>, <<"z","s","h">> }

\* The non-empty chunks a command delivered on one stream.
ChunksOf(calls, kind) == SelectSeq(calls, LAMBDA c : c.kind = kind /\ c.chunk /= <<>>)

RECURSIVE ChunkLines(_)
ChunkLines(cs) ==
    IF cs = <<>> THEN <<>> ELSE Head(cs).chunk \o <<"\n">> \o ChunkLines(Tail(cs))

RECURSIVE EntriesOf(_, _)
\* One transcript entry per command that delivered a chunk on the stream:
\* "$ <command>", then its chunks, a line each.
EntriesOf(calls, kind) ==
    IF calls = <<>> THEN <<>>
    ELSE (IF ChunksOf(Head(calls).calls, kind) = <<>> THEN <<>>
          ELSE << <<"$", " ">> \o Head(calls).command \o <<"\n">>
                  \o ChunkLines(ChunksOf(Head(calls).calls, kind)) >>)
         \o EntriesOf(Tail(calls), kind)

\* The transcript of one stream over the commands run: absent when empty.
TranscriptOf(calls, kind) ==
    IF EntriesOf(calls, kind) = <<>> THEN None
    ELSE Some(Join(EntriesOf(calls, kind), <<"\n">>))

\* C2: no command is run after a command that failed (only the last call made
\* can be a failure); once a command has failed execute returns a report whose
\* status is Failed with that command's exit code, and whose stdout and stderr
\* hold the entries of the commands run, the failing one last, and no other.
C2_FailFast ==
    /\ \A i \in 1..(Len(runCalls) - 1) : runCalls[i].result = "success"
    /\ (runCalls /= <<>> /\ Last(runCalls).result = "failure") =>
          /\ pc \in {"break", "done"}
          /\ pc = "done" =>
                /\ Reported
                /\ Report.status = [tag |-> "Failed", exit_code |-> Last(runCalls).exit_code]
                /\ Report.stdout = TranscriptOf(runCalls, "stdout")
                /\ Report.stderr = TranscriptOf(runCalls, "stderr")

\* C2's case: of two command lines the first failed after writing to stdout.
C2_Witness ==
    /\ Reported
    /\ Len(CommandLines(block.content)) = 2
    /\ Len(runCalls) = 1 /\ runCalls[1].result = "failure"
    /\ IsSome(Report.stdout)

\* C3: the skip reason of a report is that of the first condition that applies,
\* in the order: the block's own skip reason, a language that is no shell, an
\* empty trimmed content, no command among the lines; otherwise there is none.
C3_SkipPrecedence ==
    Reported =>
        Report.skip_reason =
            IF IsSome(block.skip_reason) THEN block.skip_reason
            ELSE IF ~ShellLanguage(block.language)
            THEN Some(<<"L","a","n","g","u","a","g","e"," ","'">> \o Unwrap(block.language)
                      \o <<"'"," ","u","n","s","u","p","p","o","r","t","e","d"," ","y","e","t",
                           ";"," ","a","d","d"," ","a"," ","p","l","u","g","i","n">>)
            ELSE IF Trim(block.content) = <<>>
            THEN Some(<<"B","l","o","c","k"," ","e","m","p","t","y",";"," ","n","o","t","h",
                        "i","n","g"," ","t","o"," ","e","x","e","c","u","t","e">>)
            ELSE IF CommandLines(block.content) = <<>>
            THEN Some(<<"B","l","o","c","k"," ","o","n","l","y"," ","h","a","d"," ","c","o",
                        "m","m","e","n","t","s","/","b","l","a","n","k"," ","l","i","n","e","s">>)
            ELSE None

\* C3's case: a block to which every skip condition applies at once.
C3_Witness ==
    /\ Reported
    /\ IsSome(block.skip_reason)
    /\ ~ShellLanguage(block.language)
    /\ Trim(block.content) = <<>>
    /\ CommandLines(block.content) = <<>>

\* C4: in every report, a skip reason is present exactly when the status is
\* Skipped, and a Skipped report has no stdout, no stderr and no sandbox label.
C4_SkippedReportShape ==
    Reported =>
        /\ IsSome(Report.skip_reason) <=> Report.status.tag = "Skipped"
        /\ Report.status.tag = "Skipped" =>
              Report.stdout = None /\ Report.stderr = None /\ Report.sandbox = None

\* C4's case: a comment-only block, skipped after the backend label was read.
C4_Witness ==
    /\ Reported
    /\ Report.status.tag = "Skipped"
    /\ sandbox_label /= <<>>
    /\ CommandLines(block.content) = <<>>

\* C5: on a block whose skip reason is set, execute never enters its loop and
\* never calls the backend, and it returns a Skipped report with that reason.
C5_ExplicitSkip ==
    IsSome(block.skip_reason) =>
        /\ runCalls = <<>>
        /\ pc \in {"start", "done"}
        /\ pc = "done" =>
              /\ Reported
              /\ Report.status.tag = "Skipped"
              /\ Report.skip_reason = block.skip_reason

\* C5's case: a shell block with a command line and a skip reason.
C5_Witness ==
    /\ pc = "done"
    /\ IsSome(block.skip_reason)
    /\ ShellLanguage(block.language)
    /\ CommandLines(block.content) /= <<>>

\* C10: a report is Passed exactly when at least one command was run and every
\* command run succeeded; the commands run were then the command lines of the
\* content, each once, in content order.
C10_Passed ==
    Reported =>
        /\ Report.status.tag = "Passed" <=>
              /\ runCalls /= <<>>
              /\ \A i \in 1..Len(runCalls) : runCalls[i].result = "success"
        /\ Report.status.tag = "Passed" =>
              /\ [i \in 1..Len(runCalls) |-> runCalls[i].command] = CommandLines(block.content)
              /\ \A i, j \in 1..Len(runCalls) : i < j => runCalls[i].line < runCalls[j].line

\* C10's case: two commands passed, in a content with comment and blank lines.
C10_Witness ==
    /\ Reported
    /\ Report.status.tag = "Passed"
    /\ Len(runCalls) = 2
    /\ Len(Lines(block.content)) > 2

\* execute is given a block it runs: no skip reason, a shell language, a
\* content that is not blank.
Runnable == block.skip_reason = None /\ ShellLanguage(block.language) /\ Trim(block.content) /= <<>>

\* The numbers of the content lines that are commands and cannot be split.
UnsplittableLines ==
    { i \in 1..Len(Lines(block.content)) :
         LET l == Trim(Lines(block.content)[i])
         IN l /= <<>> /\ l[1] /= "#" /\ ShlexSplit(l) = None }

\* execute returned a hard error and no report.
HardError == IsSome(returned) /\ ~Unwrap(returned).ok

\* C11 as stated: once execute has returned on a runnable block with a command
\* line that cannot be split, it has returned a hard error, whatever the other
\* lines did.
C11_AnyUnsplittableLineIsHardError ==
    (pc = "done" /\ Runnable /\ UnsplittableLines /= {}) => HardError

\* C11, amended: on a runnable block whose first unsplittable command line is
\* line k, execute returns the hard error of line k exactly when every command
\* above line k was run and succeeded, and no line from k on was run; a
\* command above line k that failed ends the block with a Failed report, and
\* line k is never split.
C11_UnsplittableLineReached ==
    (pc = "done" /\ Runnable /\ UnsplittableLines /= {}) =>
        LET k == CHOOSE i \in UnsplittableLines : \A j \in UnsplittableLines : i <= j
            above == CommandLines(Join(SubSeq(Lines(block.content), 1, k - 1), <<"\n">>))
        IN /\ \A i \in 1..Len(runCalls) : runCalls[i].line < k
           /\ (HardError /\ Unwrap(returned).error = [kind |-> "unable to parse line", line |-> k])
                 <=> /\ \A i \in 1..Len(runCalls) : runCalls[i].result = "success"
                     /\ [i \in 1..Len(runCalls) |-> runCalls[i].command] = above
           /\ (runCalls /= <<>> /\ Last(runCalls).result = "failure") =>
                 Reported /\ Report.status.tag = "Failed"

\* C11's case: the command above the unsplittable line ran and succeeded, and
\* execute returned the hard error of the line below it.
C11_Witness ==
    /\ pc = "done" /\ Runnable
    /\ UnsplittableLines = {2}
    /\ Len(runCalls) = 1 /\ runCalls[1].result = "success"
    /\ HardError

\* ------------------------------------------- properties of main, run_blocks

\* main has returned.
Exited == run_pc = "exit"

\* The ids of a sequence of blocks or reports.
IdsOf(q) == [i \in 1..Len(q) |-> q[i].id]

\* The entries of the run log that belong to a block.
LogOf(id) == SelectSeq(run_log, LAMBDA e : e.block = id)

\* C12: a Failed report does not end the run. When the k-th of the selected
\* blocks has a Failed report and is not the last, the run does not end before
\* execute was called on block k+1; a run that ends without a hard error has
\* one report per selected block, in order; and the failing command is the last
\* command run of its own block only.
C12_FailedBlockDoesNotStopRun ==
    /\ \A k \in 1..Len(reports) :
          (reports[k].status.tag = "Failed" /\ k < Len(subset)) =>
              /\ Exited => (Len(started) > k /\ started[k + 1] = subset[k + 1].id)
              /\ LogOf(reports[k].id) /= <<>>
              /\ ~Last(LogOf(reports[k].id)).success
    /\ (Exited /\ IsSome(run_result) /\ Unwrap(run_result).ok) =>
          IdsOf(reports) = IdsOf(subset)

\* C12's case: the first of two blocks failed on its first command, the second
\* ran its commands and passed.
C12_Witness ==
    /\ Exited
    /\ Len(reports) = 2
    /\ reports[1].status.tag = "Failed"
    /\ reports[2].status.tag = "Passed"
    /\ Len(LogOf(reports[1].id)) = 1
    /\ Len(LogOf(reports[2].id)) = 2

\* execute has returned a hard error.
ExecuteFailed == IsSome(returned) /\ ~Unwrap(returned).ok

\* C13: when execute has returned a hard error on a block, that block is the
\* last one execute was called on, the blocks before it each have their
\* report, no block was run twice, and from then on no block is started, no
\* command is run and no report is added or taken back.
C13_HardErrorStopsRun ==
    /\ [](ExecuteFailed =>
            /\ block.id = Last(started)
            /\ IdsOf(reports) = SubSeq(started, 1, Len(started) - 1)
            /\ started = SubSeq(IdsOf(subset), 1, Len(started))
            /\ \A i, j \in 1..Len(started) : i /= j => started[i] /= started[j]
            /\ \A i \in 1..Len(run_log) : \E j \in 1..Len(started) : run_log[i].block = started[j]
            /\ \A i, j \in 1..Len(run_log) :
                  i < j => <<run_log[i].block, run_log[i].line>> /= <<run_log[j].block, run_log[j].line>>)
    /\ [][ExecuteFailed => (started' = started /\ run_log' = run_log /\ reports' = reports
                             /\ spawn_pc' = spawn_pc)]_vars

\* C13's case: the first block has its report, the second ran a command and
\* then met a line it could not split; the run has ended.
C13_Witness ==
    /\ Exited
    /\ ExecuteFailed
    /\ Len(subset) = 2 /\ Len(reports) = 1
    /\ Unwrap(returned).error.kind = "unable to parse line"
    /\ Len(LogOf(started[2])) = 1

\* The requested key is the id or the name of no block of the document.
KeyMatchesNothing ==
    /\ IsSome(run_key)
    /\ IsSome(extracted) /\ Unwrap(extracted).ok
    /\ \A i \in 1..Len(Unwrap(extracted).value) :
          /\ Unwrap(extracted).value[i].id /= Unwrap(run_key)
          /\ Unwrap(extracted).value[i].name /= run_key

\* The document could not be read or extract_blocks returned an error.
ExtractionFailed ==
    \/ IsSome(extracted) /\ ~Unwrap(extracted).ok
    \/ extracted = None /\ Exited

\* C14: in a run whose extraction fails, and in a run whose key matches no
\* block, execute is never called, no child is ever spawned and no command is
\* run; the run ends with an error.
C14_NoRunOnInputOrLookupError ==
    (ExtractionFailed \/ KeyMatchesNothing) =>
        /\ started = <<>> /\ run_log = <<>>
        /\ pc = "idle" /\ spawn_pc = "idle" /\ child = "none"
        /\ run_pc \in {"select", "exit"}
        /\ Exited => (IsSome(run_result) /\ ~Unwrap(run_result).ok)

\* C14's case: a document of two blocks, a key that names neither, the run over.
C14_Witness ==
    /\ Exited
    /\ KeyMatchesNothing
    /\ Len(Unwrap(extracted).value) = 2
    /\ Unwrap(run_result).error = "unknown block id or name"

\* --------------------------------------- properties of spawn_with_streaming

\* The characters of a line the child wrote, its line end left out.
LineText(text) == SelectSeq(text, LAMBDA c : c \notin {"\r", "\n"})

\* The non-empty lines among the items of a stream, in the order written.
NonEmptyLines(items) ==
    LET texts == [i \in 1..Len(items) |-> LineText(items[i].text)]
    IN SelectSeq(texts, LAMBDA l : l /= <<>>)

\* The chunks the sink has received through the method of one stream.
Received(s) ==
    LET calls == SelectSeq(sink_calls, LAMBDA c : c.kind = s)
    IN [i \in 1..Len(calls) |-> calls[i].chunk]

\* The child never writes bytes that read_line rejects.
NoReadError ==
    \A s \in {"stdout", "stderr"} : \A i \in 1..Len(script[s]) : script[s][i].utf8

IsPrefix(a, b) == Len(a) <= Len(b) /\ a = SubSeq(b, 1, Len(a))

\* C15: for a child that was spawned and whose output is read without error,
\* what the sink has received through on_stdout is at every moment a prefix of
\* the non-empty lines of stdout in the order written, likewise on_stderr and
\* stderr, no call carries an empty chunk, and when spawn_with_streaming
\* returns, it returns a status and the sink has received all of them.
C15_SinkReceivesLinesInOrder ==
    (script /= None /\ script.spawns /\ NoReadError) =>
        /\ \A s \in {"stdout", "stderr"} : IsPrefix(Received(s), NonEmptyLines(script[s]))
        /\ \A i \in 1..Len(sink_calls) : sink_calls[i].chunk /= <<>>
        /\ spawn_pc = "returned" =>
              /\ Unwrap(spawn_result).ok
              /\ \A s \in {"stdout", "stderr"} : Received(s) = NonEmptyLines(script[s])

\* C15's case: the child wrote an empty line and a line on stdout and two lines
\* on stderr; the sink received a stderr line first and a stdout line before
\* the last stderr line; spawn_with_streaming has returned.
C15_Witness ==
    /\ spawn_pc = "returned"
    /\ NoReadError
    /\ Len(script.stdout) = 2 /\ Len(NonEmptyLines(script.stdout)) = 1
    /\ Len(script.stderr) = 2
    /\ Len(sink_calls) = 3
    /\ sink_calls[1].kind = "stderr" /\ sink_calls[2].kind = "stdout"

\* The number of whole, non-empty lines the child has written on a stream so
\* far, up to the first bytes its reader cannot read.
Deliverable(s) ==
    LET n == Len(script[s]) - Len(script_left[s])
        bad == { i \in 1..n : ~script[s][i].utf8 }
        upto == IF bad = {} THEN n ELSE (CHOOSE i \in bad : \A j \in bad : i <= j) - 1
        whole == SelectSeq(SubSeq(script[s], 1, upto),
                           LAMBDA it : it.text[Len(it.text)] = "\n")
    IN Len(NonEmptyLines(whole))

\* C16: a reader that has a line to read can always take its turn, whatever
\* the other reader and the consumer are doing; and when the threads are
\* scheduled fairly, the n-th non-empty line the child has written on a stream
\* is in the end delivered to the sink, whether or not the other stream is
\* closed, silent or waiting to be consumed.
C16_NoStarvation ==
    /\ [](\A s \in {"stdout", "stderr"} :
            (readers[s] = "reading" /\ Readable(pipes[s], stream_open[s]))
                => ENABLED ReadLine(s))
    /\ \A s \in {"stdout", "stderr"} : \A n \in 1..MaxLines :
          (script /= None /\ Deliverable(s) >= n) ~> (Len(Received(s)) >= n)

\* C16's case: the sink has received the line of stdout while stderr is open
\* and silent and stays so.
C16_Witness ==
    /\ Len(Received("stdout")) = 1
    /\ script.stderr = <<>> /\ "stderr" \in script.holds
    /\ stream_open["stderr"] /\ readers["stderr"] = "reading"

\* C17 as stated: whenever spawn_with_streaming has returned for a child it
\* spawned, both reader handles have been joined, the child has been waited
\* on, and a reader's error is what was returned.
C17_JoinedAndWaitedOnEveryReturn ==
    (spawn_pc = "returned" /\ script.spawns) =>
        /\ joined = Len(StreamKinds)
        /\ \A s \in {"stdout", "stderr"} : readers[s] \in {"ended", "failed"}
        /\ child = "waited"
        /\ (\E s \in {"stdout", "stderr"} : readers[s] = "failed") =>
              (~Unwrap(spawn_result).ok /\ Unwrap(spawn_result).error.kind = "read")

\* ------------------------------- properties of a run, command by command

\* spawn_with_streaming has returned an error.
SpawnFailed == spawn_pc = "returned" /\ ~Unwrap(spawn_result).ok

\* A reader has met a read error.
ReaderFailed == \E s \in {"stdout", "stderr"} : readers[s] = "failed"

\* What execute does with what the backend returned: a command that was run
\* and failed ends in a Failed report with its exit code, an error of the
\* backend in a hard error on the spot and no report.
ExecuteOnStatusAndError ==
    /\ (runCalls /= <<>> /\ Last(runCalls).result = "failure" /\ pc = "done") =>
          (Reported /\ Report.status = [tag |-> "Failed", exit_code |-> Last(runCalls).exit_code])
    /\ \A i \in 1..Len(runCalls) :
          runCalls[i].result = "error" => (i = Len(runCalls) /\ pc = "done" /\ HardError)

\* C18 as stated: a child that was spawned and exits non-zero gives a status
\* with success false and the exit code, not an error, and a Failed report;
\* the backend returns an error only when the spawn fails, the error ends
\* execute with no report, and the sink has received no call for the command.
C18_OnlySpawnFailureIsAnError ==
    /\ (spawn_pc = "returned" /\ script.spawns /\ script.exit_code /= Some(0)) =>
          /\ Unwrap(spawn_result).ok
          /\ ~Unwrap(spawn_result).value.success
          /\ Unwrap(spawn_result).value.exit_code = script.exit_code
    /\ SpawnFailed => (~script.spawns /\ sink_calls = <<>>)
    /\ ExecuteOnStatusAndError
    /\ \A i \in 1..Len(runCalls) : runCalls[i].result = "error" => runCalls[i].calls = <<>>

\* C18, amended: a child that was spawned, whose output was read without
\* error and that exits non-zero gives a status with success false and the
\* exit code, and a Failed report; the backend returns an error when the spawn
\* fails, the sink then having received no call, and also when a reader has
\* met a read error, after any calls the sink received; either error ends
\* execute on the spot with no report.
C18_SpawnAndReadErrors ==
    /\ (spawn_pc = "returned" /\ script.spawns /\ ~ReaderFailed) =>
          /\ Unwrap(spawn_result).ok
          /\ Unwrap(spawn_result).value.success = (script.exit_code = Some(0))
          /\ Unwrap(spawn_result).value.exit_code = script.exit_code
    /\ SpawnFailed =>
          \/ ~script.spawns /\ Unwrap(spawn_result).error.kind = "spawn" /\ sink_calls = <<>>
          \/ script.spawns /\ Unwrap(spawn_result).error.kind = "read" /\ ReaderFailed
    /\ ExecuteOnStatusAndError
    /\ \A i \in 1..Len(runCalls) :
          runCalls[i].result = "error" =>
              /\ runCalls[i].error \in {"spawn", "read"}
              /\ runCalls[i].error = "spawn" => runCalls[i].calls = <<>>

\* C18's case: the first block has a Failed report from a command that exited
\* non-zero; in the second a reader met a read error after the sink had
\* received a line, and execute returned a hard error.
C18_Witness ==
    /\ Len(reports) = 1 /\ reports[1].status.tag = "Failed"
    /\ Len(started) = 2
    /\ ExecuteFailed
    /\ Last(runCalls).error = "read"
    /\ Last(runCalls).calls /= <<>>

\* No child is running or un-waited, no reader is reading, no stream is open.
Quiet ==
    /\ child \in {"none", "waited"}
    /\ \A s \in {"stdout", "stderr"} : readers[s] \in {"none", "ended"} /\ ~stream_open[s]

\* C19: a command is spawned, and a block is begun, only when no child of an
\* earlier command is alive or un-waited and no reader is left reading; a
\* block is begun only when every block begun before has its report; blocks
\* are begun in discovery order, and commands are run block after block, line
\* after line.
C19_OneCommandAtATime ==
    /\ spawn_pc = "spawn" => Quiet
    /\ pc = "start" => (Quiet /\ Len(reports) = Len(started) - 1)
    /\ IsPrefix(IdsOf(reports), started)
    /\ IsPrefix(started, IdsOf(subset))
    /\ \A i, j \in 1..Len(subset) :
          i < j => DigitsValue(IdDigits(subset[i].id)) < DigitsValue(IdDigits(subset[j].id))
    /\ \A i, j \in 1..Len(run_log) :
          i < j =>
             \/ DigitsValue(IdDigits(run_log[i].block)) < DigitsValue(IdDigits(run_log[j].block))
             \/ run_log[i].block = run_log[j].block /\ run_log[i].line < run_log[j].line

\* C19's case: the second command of the second block is about to be spawned;
\* the children of the two commands before it have been waited on.
C19_Witness ==
    /\ spawn_pc = "spawn"
    /\ Len(started) = 2 /\ Len(reports) = 1
    /\ Len(run_log) = 2 /\ Len(runCalls) = 1
    /\ child = "waited"

\* ------------------------------------------- properties of DockerSandbox

\* C20: the image of a DockerSandbox is the explicit image when one is given,
\* whatever the environment says; otherwise the value of RUNME_DOCKER_IMAGE
\* when it is set to a string; otherwise ubuntu:22.04; and its extra
\* arguments are those of the configuration, in their order.
C20_ImagePrecedence ==
    docker_sandbox /= None =>
        /\ Unwrap(docker_sandbox).image =
              IF docker_config.image /= None THEN docker_config.image[1]
              ELSE IF docker_env.set /\ docker_env.unicode THEN docker_env.value
              ELSE <<"u","b","u","n","t","u",":","2","2",".","0","4">>
        /\ Unwrap(docker_sandbox).extra_args = docker_config.extra_args

\* C20's case: an explicit image, an environment variable set to another
\* image, two extra arguments that differ; the sandbox has been made.
C20_Witness ==
    /\ docker_sandbox /= None
    /\ docker_config.image /= None
    /\ docker_env.set /\ docker_env.unicode
    /\ docker_env.value /= docker_config.image[1]
    /\ Len(docker_config.extra_args) = 2
    /\ docker_config.extra_args[1] /= docker_config.extra_args[2]

\* ------------------------------------------- properties of the backends

\* The block of the subset that has the id.
BlockOf(id) == subset[CHOOSE i \in 1..Len(subset) : subset[i].id = id]

\* C21: the label of the wasm backend is wasm(host-fallback), which is
\* neither host nor docker; in a run under the wasm backend every command is
\* started as the host backend starts it (the words of its line, in the
\* working directory, no docker around them), every report that is not
\* Skipped carries the wasm label, and a Skipped report carries none.
C21_WasmRunsOnHostUnderItsOwnLabel ==
    /\ Label("Wasm") = <<"w","a","s","m","(","h","o","s","t","-","f","a","l","l","b","a","c","k",")">>
    /\ Label("Host") = <<"h","o","s","t">>
    /\ Label("Docker") = <<"d","o","c","k","e","r">>
    /\ (run_pc \in {"loop", "executing", "exit"} /\ sandbox_kind = "Wasm") =>
          /\ \A i \in 1..Len(run_log) :
                /\ run_log[i].command.words =
                      Unwrap(ShlexSplit(Trim(Lines(BlockOf(run_log[i].block).content)[run_log[i].line])))
                /\ run_log[i].command.current_dir = Some(<<".">>)
                /\ run_log[i].command.words[1] /= <<"d","o","c","k","e","r">>
          /\ \A i \in 1..Len(reports) :
                IF reports[i].status.tag = "Skipped"
                THEN reports[i].sandbox = None
                ELSE reports[i].sandbox = Some(Label("Wasm")) /\ reports[i].sandbox /= Some(Label("Host"))

\* C21's case: a run under the wasm backend has reported a Skipped block and
\* a block whose command was run.
C21_Witness ==
    /\ sandbox_kind = "Wasm"
    /\ run_pc = "exit"
    /\ Len(reports) = 2
    /\ reports[1].status.tag = "Skipped"
    /\ reports[2].status.tag = "Passed"
    /\ Len(run_log) = 1

\* ------------------------------------------- properties of is_shell

\* A language as a fence gives it: one token, no white space in it.
IsToken(language) == \A i \in 1..Len(language) : ~IsWs(language[i])

\* One of bash, sh, shell, zsh, in any case.
ShellName(language) ==
    \E name \in { <<"b","a","s","h">>, <<"s","h">>, <<"s","h","e","l","l">>, <<"z","s","h">> } :
       /\ Len(name) = Len(language)
       /\ \A i \in 1..Len(name) :
             \/ language[i] = name[i]
             \/ \E k \in 1..26 : language[i] = UpperChars[k] /\ name[i] = LowerChars[k]

\* C22: is_shell is true of a block with no language and of a block whose
\* language is bash, sh, shell or zsh in any case, and false of a block with
\* any other language; a block is skipped as unsupported exactly when it has
\* no skip reason of its own and is_shell is false of it, so a block with no
\* language, no skip reason and a command in it has its commands run.
C22_ShellClassification ==
    (pc /= "idle" /\ (block.language = None \/ IsToken(Unwrap(block.language)))) =>
        /\ IsShell(block) <=> (block.language = None \/ ShellName(Unwrap(block.language)))
        /\ Reported =>
              /\ (Report.status.tag = "Skipped"
                    /\ Report.skip_reason /= block.skip_reason
                    /\ Trim(block.content) /= <<>>
                    /\ CommandLines(block.content) /= <<>>)
                  <=> (block.skip_reason = None /\ block.language /= None
                       /\ ~ShellName(Unwrap(block.language))
                       /\ Trim(block.content) /= <<>>
                       /\ CommandLines(block.content) /= <<>>)
              /\ (block.skip_reason = None /\ CommandLines(block.content) /= <<>>
                    /\ (block.language = None \/ ShellName(Unwrap(block.language))))
                  => (Report.status.tag /= "Skipped" /\ runCalls /= <<>>)

\* C22's case: a block with no language has had its command run and Passed.
C22_Witness ==
    /\ Reported
    /\ block.language = None
    /\ block.skip_reason = None
    /\ Report.status.tag = "Passed"
    /\ Len(runCalls) = 1

\* ------------------------------------------- properties of parse_fence_meta

\* The token is runme:ignore or runme:skip, in any case.
IsSkipToken(token) ==
    ToAsciiLowercase(token) \in { <<"r","u","n","m","e",":","i","g","n","o","r","e">>,
                                  <<"r","u","n","m","e",":","s","k","i","p">> }

\* Where the first "=" of the token is: 0 when it has none.
EqualsAt(token) ==
    IF \E i \in 1..Len(token) : token[i] = "="
    THEN CHOOSE i \in 1..Len(token) : token[i] = "=" /\ \A j \in 1..(i - 1) : token[j] /= "="
    ELSE 0

\* The token is runme:name=V, the key in any case, V not empty.
IsNameToken(token) ==
    /\ ~IsSkipToken(token)
    /\ EqualsAt(token) = 11
    /\ ToAsciiLowercase(SubSeq(token, 1, 10)) = <<"r","u","n","m","e",":","n","a","m","e">>
    /\ Len(token) > 11

\* The token may be the language: no marker, no "=" in it.
IsLanguageToken(token) == ~IsSkipToken(token) /\ EqualsAt(token) = 0

\* C23: once the fence is opened, whatever the order of its tokens and the
\* white space between them: the block is marked skipped, with the reason
\* Marked with runme:ignore, exactly when a token is runme:ignore or
\* runme:skip; the inline name is the V of the last token runme:name=V with
\* non-empty V, and absent when there is none; the language is the first
\* token that is no marker and has no "=", lowercased, and absent when there
\* is none; an info string with no token gives no language, name or skip.
C23_FenceInfo ==
    (fence_info /= None /\ lastEvent = "StartCodeBlock") =>
        LET tokens == Unwrap(fence_info).tokens
            skips == { i \in 1..Len(tokens) : IsSkipToken(tokens[i]) }
            names == { i \in 1..Len(tokens) : IsNameToken(tokens[i]) }
            langs == { i \in 1..Len(tokens) : IsLanguageToken(tokens[i]) }
            lastName == CHOOSE i \in names : \A j \in names : j <= i
            firstLang == CHOOSE i \in langs : \A j \in langs : i <= j
        IN /\ pending_skip =
                 IF skips /= {}
                 THEN Some(<<"M","a","r","k","e","d"," ","w","i","t","h"," ",
                             "r","u","n","m","e",":","i","g","n","o","r","e">>)
                 ELSE None
           /\ block_inline_name =
                 IF names /= {}
                 THEN Some(SubSeq(tokens[lastName], 12, Len(tokens[lastName])))
                 ELSE None
           /\ block_language =
                 IF langs /= {} THEN Some(ToAsciiLowercase(tokens[firstLang])) ELSE None
           /\ tokens = <<>> =>
                 (pending_skip = None /\ block_inline_name = None /\ block_language = None)

\* C23's case: a fence whose info string has the skip marker first, then a
\* name, then the language, with white space around them, has been opened.
C23_Witness ==
    /\ fence_info /= None
    /\ lastEvent = "StartCodeBlock"
    /\ Len(Unwrap(fence_info).tokens) = 3
    /\ IsSkipToken(Unwrap(fence_info).tokens[1])
    /\ IsNameToken(Unwrap(fence_info).tokens[2])
    /\ IsLanguageToken(Unwrap(fence_info).tokens[3])
    /\ Unwrap(fence_info).text[1] = " "
    /\ pending_skip /= None /\ block_inline_name /= None /\ block_language /= None

\* ------------------------------------------- properties of the transcripts

\* The places of a text where a line begins with "$ ".
Markers(text) ==
    { i \in 1..(Len(text) - 1) :
        text[i] = "$" /\ text[i + 1] = " " /\ (i = 1 \/ text[i - 1] = "\n") }

\* The segments a transcript falls into when split at its markers: none when
\* it is absent.
Segments(transcript) ==
    IF transcript = None THEN 0 ELSE Cardinality(Markers(Unwrap(transcript)))

\* The commands run that delivered a chunk on the stream.
Printing(kind) == { i \in 1..Len(runCalls) : ChunksOf(runCalls[i].calls, kind) /= <<>> }

\* The chunks delivered on the stream that themselves begin with "$ ".
MarkerLike(kind) ==
    { <<i, k>> \in (1..Len(runCalls)) \X (1..MaxChunks) :
        /\ k <= Len(ChunksOf(runCalls[i].calls, kind))
        /\ Markers(ChunksOf(runCalls[i].calls, kind)[k].chunk) /= {} }

\* C24 as it is stated: the stdout of a Passed report splits at its "$ "
\* markers into exactly one segment per command run.
C24_OneSegmentPerCommand ==
    (Reported /\ Report.status.tag = "Passed") => Segments(Report.stdout) = Len(runCalls)

\* C24: the stdout of a Passed report is made of one entry per command run
\* that delivered a non-empty chunk on stdout, in the order of the commands,
\* each begun by its "$ <command>" line, and is absent when no command did;
\* split at the lines that begin with "$ " it has one segment per such
\* command and one more per delivered chunk that itself begins with "$ ".
C24_OneSegmentPerPrintingCommand ==
    (Reported /\ Report.status.tag = "Passed") =>
        /\ Report.stdout = TranscriptOf(runCalls, "stdout")
        /\ Len(EntriesOf(runCalls, "stdout")) = Cardinality(Printing("stdout"))
        /\ Segments(Report.stdout)
              = Cardinality(Printing("stdout")) + Cardinality(MarkerLike("stdout"))
        /\ Report.stdout = None <=> Printing("stdout") = {}

\* C24's case: two commands passed, the first of them silent on stdout, the
\* second printing a line.
C24_Witness ==
    /\ Reported
    /\ Report.status.tag = "Passed"
    /\ Len(runCalls) = 2
    /\ Printing("stdout") = {2}
    /\ MarkerLike("stdout") = {}
    /\ runCalls[1].calls /= <<>>

\* ------------------------------------------- properties of the exit status

\* The exit status of the child has been collected.
StatusCaptured == IsSome(spawn_result) /\ Unwrap(spawn_result).ok

\* C25: when spawn_with_streaming is about to collect the exit status, and
\* once it has, both readers have met the end of their stream and have been
\* joined, nothing is left in the pipes or queued in the channel, and the
\* sink has received every non-empty line the child wrote; the status is
\* collected in the step from there and in no other; and once it is
\* collected the sink receives no further call.
C25_StatusAfterOutput ==
    /\ []((spawn_pc = "wait" \/ StatusCaptured) =>
            /\ \A s \in {"stdout", "stderr"} :
                  /\ readers[s] = "ended"
                  /\ pipes[s] = <<>>
                  /\ ~stream_open[s]
                  /\ Received(s) = NonEmptyLines(script[s])
            /\ rx = <<>>
            /\ joined = 2)
    /\ [][(~StatusCaptured /\ StatusCaptured') => spawn_pc = "wait"]_vars
    /\ [][StatusCaptured => sink_calls' = sink_calls]_vars

\* C25's case: the status was collected after the sink had received a line
\* of stderr and then a line of stdout.
C25_Witness ==
    /\ StatusCaptured
    /\ child = "waited"
    /\ Len(sink_calls) >= 2
    /\ sink_calls[1].kind = "stderr"
    /\ sink_calls[2].kind = "stdout"

\* The child has closed both streams and exited.
ChildGone == child = "exited" /\ \A s \in {"stdout", "stderr"} : ~stream_open[s]

\* With the two readers and the consumer scheduled fairly, a call whose child
\* has closed both streams and exited returns, whatever was written and in
\* whatever order the threads ran.
CallReturns == ChildGone ~> (spawn_pc = "returned")

\* C26 as it is stated: with the two readers and the consumer scheduled
\* fairly, once the child has closed both streams and exited, the consumer
\* loop ends, both joins complete and the call returns.
C26_ReturnsWithBothJoined ==
    ChildGone ~> (spawn_pc = "returned" /\ joined = 2)

\* ------------------------------------------- properties of DockerSandbox::run

\* The command line is docker run --rm --network=none -v <mount>:/workspace
\* -w /workspace, the extra arguments of the configuration in their order,
\* the image of the sandbox, then an argv as it was given.
WrapsArgv(command, mount) ==
    \E argv \in DockerArgvs :
        command = << <<"d","o","c","k","e","r">>, <<"r","u","n">>, <<"-","-","r","m">>,
                     <<"-","-","n","e","t","w","o","r","k","=","n","o","n","e">>,
                     <<"-","v">>, mount \o <<":","/","w","o","r","k","s","p","a","c","e">>,
                     <<"-","w">>, <<"/","w","o","r","k","s","p","a","c","e">> >>
                  \o docker_config.extra_args
                  \o << Unwrap(docker_sandbox).image >>
                  \o argv

\* Whatever directory is mounted, the command line DockerSandbox::run builds
\* has this shape, with --rm and --network=none in third and fourth place.
DockerCommandShape ==
    docker_command /= None =>
        WrapsArgv(Unwrap(docker_command), Unwrap(docker_sandbox).mount_dir)

\* C27 as it is stated: the command line DockerSandbox::run builds mounts
\* the absolute working directory on /workspace and is otherwise docker run
\* --rm --network=none -v .. -w /workspace, the extra flags in order, the
\* image, the argv unchanged; --rm and --network=none stand before the image.
C27_DockerCommandLine ==
    docker_command /= None =>
        /\ Unwrap(docker_sandbox).mount_dir[1] = "/"
        /\ WrapsArgv(Unwrap(docker_command), Unwrap(docker_sandbox).mount_dir)
        /\ \E i, j, k \in 1..Len(Unwrap(docker_command)) :
              /\ i < k /\ j < k
              /\ Unwrap(docker_command)[i] = <<"-","-","r","m">>
              /\ Unwrap(docker_command)[j] = <<"-","-","n","e","t","w","o","r","k","=","n","o","n","e">>
              /\ k = 9 + Len(docker_config.extra_args)
              /\ Unwrap(docker_command)[k] = Unwrap(docker_sandbox).image

\* ------------------------------------------- properties of the assembly

\* The commands whose run returned a status, in the order they were run.
Completed == SelectSeq(runCalls, LAMBDA c : c.error = "none")

\* The transcripts execute has collected for one stream.
Collected(kind) == IF kind = "stdout" THEN stdout_chunks ELSE stderr_chunks

\* C28: for each stream, execute holds one transcript per completed command
\* that delivered a non-empty chunk on it and none for the others, in the
\* order the commands were run; a transcript is the line "$ <trimmed source
\* line>", once and first, then the command's non-empty chunks on that
\* stream in delivery order, a line each; the report's stdout (stderr) is
\* these transcripts in that order, a newline between them, and is absent
\* when there is none.
C28_TranscriptAssembly ==
    pc /= "idle" =>
        \A kind \in {"stdout", "stderr"} :
            LET printing == SelectSeq(Completed, LAMBDA c : ChunksOf(c.calls, kind) /= <<>>)
                text == IF kind = "stdout" THEN Report.stdout ELSE Report.stderr
            IN /\ Len(Collected(kind)) = Len(printing)
               /\ \A n \in 1..Len(printing) :
                     /\ printing[n].command = Trim(Lines(block.content)[printing[n].line])
                     /\ Collected(kind)[n] =
                           <<"$", " ">> \o printing[n].command \o <<"\n">>
                           \o ChunkLines(ChunksOf(printing[n].calls, kind))
               /\ Reported =>
                     IF printing = <<>> THEN text = None
                     ELSE text = Some(Join(Collected(kind), <<"\n">>))

\* C28's case: of two commands the first delivered two different chunks on
\* stdout and the second one chunk on each stream; the report has a stdout
\* of two transcripts and a stderr of one.
C28_Witness ==
    /\ Reported
    /\ Len(runCalls) = 2
    /\ Len(runCalls[1].calls) = 2 /\ Len(ChunksOf(runCalls[1].calls, "stdout")) = 2
    /\ runCalls[1].calls[1].chunk /= runCalls[1].calls[2].chunk
    /\ Len(ChunksOf(runCalls[2].calls, "stdout")) = 1
    /\ Len(ChunksOf(runCalls[2].calls, "stderr")) = 1
    /\ Len(stdout_chunks) = 2 /\ Len(stderr_chunks) = 1

\* ------------------------------------------- properties of the headings

\* The entries of a stack above a level: those of a smaller level, in order.
Shallower(stack, level) == SelectSeq(stack, LAMBDA h : h.level < level)

\* C29: the heading stack runs from the outermost heading to the innermost;
\* a block that closes gets the titles of the stack as it then is, in that
\* order; a heading that is committed drops the entries of its own level and
\* of deeper levels and keeps the shallower ones before itself, so that the
\* blocks that follow are under it; and no step changes a block that was
\* emitted before.
C29_HeadingsOfBlocks ==
    /\ [](\A i, j \in 1..Len(heading_stack) :
             i < j => heading_stack[i].level < heading_stack[j].level)
    /\ [][Len(blocks') > Len(blocks) =>
             /\ Len(blocks') = Len(blocks) + 1
             /\ blocks'[Len(blocks')].headings =
                    [i \in 1..Len(heading_stack) |-> heading_stack[i].title]
             /\ heading_stack' = heading_stack]_vars
    /\ [][heading_stack' /= heading_stack =>
             /\ heading_stack' /= <<>>
             /\ SubSeq(heading_stack', 1, Len(heading_stack') - 1)
                    = Shallower(heading_stack, heading_stack'[Len(heading_stack')].level)
             /\ blocks' = blocks]_vars
    /\ [][/\ Len(blocks') >= Len(blocks)
          /\ \A i \in 1..Len(blocks) : blocks'[i] = blocks[i]]_vars

\* C29's case: a block was emitted under two headings; a heading of the
\* level of the inner one was committed; the block that followed is under
\* the outer heading and the new one, and the first block is as it was.
C29_Witness ==
    /\ Len(blocks) = 2
    /\ Len(blocks[1].headings) = 2
    /\ Len(blocks[2].headings) = 2
    /\ blocks[1].headings[1] /= blocks[1].headings[2]
    /\ blocks[2].headings[1] = blocks[1].headings[1]
    /\ blocks[2].headings[2] /= blocks[1].headings[2]
    /\ Len(committed) = 3 /\ committed[3] = committed[2]

\* ------------------------------------------- properties of the interleavings

\* How the run of a command ends, from what its child does alone.
OutcomeOf(child_script) ==
    IF ~child_script.spawns THEN "spawn"
    ELSE IF \E s \in {"stdout", "stderr"} : \E i \in 1..Len(child_script[s]) :
               ~child_script[s][i].utf8
    THEN "read"
    ELSE "none"

RECURSIVE LinesText(_)
\* Lines, a newline after each.
LinesText(ls) == IF ls = <<>> THEN <<>> ELSE Head(ls) \o <<"\n">> \o LinesText(Tail(ls))

RECURSIVE EntriesFrom(_, _, _)
\* The transcripts of one stream that the children of a block's commands
\* call for, from what the children write alone.
EntriesFrom(log, content, kind) ==
    IF log = <<>> THEN <<>>
    ELSE (IF NonEmptyLines(Head(log).script[kind]) = <<>> THEN <<>>
          ELSE << <<"$", " ">> \o Trim(Lines(content)[Head(log).line]) \o <<"\n">>
                  \o LinesText(NonEmptyLines(Head(log).script[kind])) >>)
         \o EntriesFrom(Tail(log), content, kind)

\* The report text of one stream, from what the children write alone.
TextFrom(log, content, kind) ==
    IF EntriesFrom(log, content, kind) = <<>> THEN None
    ELSE Some(Join(EntriesFrom(log, content, kind), <<"\n">>))

\* The status of a report, from the exit codes of the children alone.
StatusFrom(log) ==
    IF log = <<>> THEN [tag |-> "Skipped", exit_code |-> None]
    ELSE IF log[Len(log)].script.exit_code = Some(0) THEN [tag |-> "Passed", exit_code |-> None]
    ELSE [tag |-> "Failed", exit_code |-> log[Len(log)].script.exit_code]

\* C30: whatever the order in which the two readers and the consumer ran,
\* how a command's run ends is decided by its child alone; the calls the sink
\* received on each stream are the child's non-empty lines on that stream,
\* in order, so that only the order between on_stdout and on_stderr calls is
\* left open; and the status, stdout and stderr of every report are those
\* that the children of the block's commands call for.
C30_ReportIgnoresInterleaving ==
    /\ \A i \in 1..Len(run_log) :
          /\ run_log[i].error = OutcomeOf(run_log[i].script)
          /\ run_log[i].error = "none" =>
                run_log[i].success = (run_log[i].script.exit_code = Some(0))
    /\ (pc \in {"loop", "break", "done"} /\ run_pc = "executing") =>
          \A i \in 1..Len(runCalls) : \A s \in {"stdout", "stderr"} :
             LET got == SelectSeq(runCalls[i].calls, LAMBDA c : c.kind = s)
                 want == NonEmptyLines(LogOf(block.id)[i].script[s])
             IN IF runCalls[i].error = "none"
                THEN [k \in 1..Len(got) |-> got[k].chunk] = want
                ELSE IsPrefix([k \in 1..Len(got) |-> got[k].chunk], want)
    /\ \A n \in 1..Len(reports) :
          LET log == LogOf(reports[n].id)
              content == BlockOf(reports[n].id).content
          IN /\ reports[n].status = StatusFrom(log)
             /\ reports[n].stdout = TextFrom(log, content, "stdout")
             /\ reports[n].stderr = TextFrom(log, content, "stderr")

\* C30's case: the sink received the line of stderr before the line of
\* stdout, which the child wrote first on its side; the report of the block
\* is pushed, with a stdout and a stderr.
C30_Witness ==
    /\ Len(reports) = 1
    /\ run_pc = "loop"
    /\ reports[1].stdout /= None /\ reports[1].stderr /= None
    /\ Len(runCalls) = 1
    /\ Len(runCalls[1].calls) = 2
    /\ runCalls[1].calls[1].kind = "stderr"
    /\ runCalls[1].calls[2].kind = "stdout"

\* ------------------------------------------- properties of live streaming

\* The sink calls of all the commands run so far.
AllCalls == { <<i, k>> \in (1..Len(runCalls)) \X (1..MaxChunks) : k <= Len(runCalls[i].calls) }

\* C31: what execute does is the same with and without live streaming: the
\* commands it runs are the command lines of the block in order, each with
\* the words of its line, up to the first that does not succeed; the sink
\* builds the same transcripts from a command's calls under either flag; the
\* report is made of the block, the label of the backend and the outcomes of
\* the commands, with no part that depends on the flag; and the flag decides
\* only whether the console gets lines: none without it, with it at least
\* one for every call of the sink.
C31_LiveStreamingOnlyPrints ==
    pc /= "idle" =>
        /\ IsPrefix([i \in 1..Len(runCalls) |-> runCalls[i].command],
                    CommandLines(block.content))
        /\ \A i \in 1..Len(runCalls) :
              /\ Some(runCalls[i].argv) = ShlexSplit(runCalls[i].command)
              /\ i < Len(runCalls) => runCalls[i].result = "success"
              /\ LET live == SinkFold(block, TRUE, runCalls[i].command, runCalls[i].calls,
                                      NewTranscript)
                     quiet == SinkFold(block, FALSE, runCalls[i].command, runCalls[i].calls,
                                       NewTranscript)
                 IN /\ live.stdout = quiet.stdout
                    /\ live.stderr = quiet.stderr
                    /\ quiet.printed = <<>>
        /\ Reported =>
              /\ Report.id = block.id /\ Report.name = block.name
              /\ Report.headings = block.headings /\ Report.language = block.language
              /\ Report.stdout = TranscriptOf(runCalls, "stdout")
              /\ Report.stderr = TranscriptOf(runCalls, "stderr")
              /\ Report.status =
                    IF runCalls = <<>> THEN [tag |-> "Skipped", exit_code |-> None]
                    ELSE IF Last(runCalls).result = "success"
                    THEN [tag |-> "Passed", exit_code |-> None]
                    ELSE [tag |-> "Failed", exit_code |-> Last(runCalls).exit_code]
              /\ Report.sandbox = IF runCalls = <<>> THEN None
                                  ELSE Some(Label(sandbox_kind))
              /\ Report.skip_reason = None <=> runCalls /= <<>>
        /\ ~stream_live => console = <<>>
        /\ stream_live => Len(console) >= Cardinality(AllCalls)
        /\ (stream_live /\ AllCalls = {}) => console = <<>>

\* C31's case: with live streaming on, two commands were run, the console
\* got their lines, and the report has a stdout and a stderr.
C31_Witness ==
    /\ Reported
    /\ stream_live
    /\ Len(runCalls) = 2
    /\ console /= <<>>
    /\ Report.stdout /= None /\ Report.stderr /= None

\* ------------------------------------------- properties of the selection

\* run_blocks has chosen its subset for a key that some block answers to.
Selected ==
    /\ run_key /= None
    /\ run_pc \in {"instantiate", "loop", "executing"} \/ (run_pc = "exit" /\ started /= <<>>)

\* The blocks of the document whose id, or whose name, is the key.
WithId == { i \in 1..Len(Unwrap(extracted).value) :
              Unwrap(extracted).value[i].id = Unwrap(run_key) }

WithName == { i \in 1..Len(Unwrap(extracted).value) :
                Unwrap(extracted).value[i].name = run_key }

\* C32, amended: a key that is the id of a block selects the block with that
\* id unless an earlier block carries the key as its name, and then that
\* earlier block is selected; a key that is only a name selects the first
\* block of that name. In every case the subset is the one block that is first
\* in discovery order among those whose id or name is the key, and no other
\* block is run.
C32_FirstMatchSelected ==
    Selected =>
        /\ subset = << Unwrap(extracted).value[
                         CHOOSE i \in WithId \cup WithName :
                            \A j \in WithId \cup WithName : i <= j] >>
        /\ IsPrefix(started, <<subset[1].id>>)

\* C32, witness: the key is the id of the second block and the name of the
\* first, and the first block is the one that was handed to execute.
C32_Witness ==
    /\ Selected
    /\ WithId = {2}
    /\ WithName = {1}
    /\ subset = <<Unwrap(extracted).value[1]>>
    /\ started = <<FormatId(1)>>

\* C32 as it is stated: a key that is the id of a block selects the block
\* with that id, also when an earlier block has the key as its name; a key
\* that is only a name selects the first block of that name; one block is
\* selected and no other is run.
C32_IdBeforeName ==
    Selected =>
        /\ Len(subset) = 1
        /\ IF WithId /= {}
           THEN subset[1].id = Unwrap(run_key)
           ELSE subset[1] = Unwrap(extracted).value[
                               CHOOSE i \in WithName : \A j \in WithName : i <= j]
        /\ IsPrefix(started, <<subset[1].id>>)

\* ------------------------------------ properties of reports and backend calls

\* C33: in every report execute returns, the status is Skipped exactly when
\* execute made no call of the backend's run for the block, and the sandbox
\* label is present exactly when it made at least one; the calls made are the
\* lines counted as executed.
C33_SkippedIffNoRunCall ==
    /\ pc /= "idle" => Len(runCalls) = executed_lines
    /\ Reported =>
          /\ Report.status.tag = "Skipped" <=> runCalls = <<>>
          /\ IsSome(Report.sandbox) <=> runCalls /= <<>>

\* C33's case: a shell block with content and no skip reason whose lines are
\* all comments or blank; the loop was walked to its end without a call, and
\* the report is Skipped for that and carries no label.
C33_Witness ==
    /\ Reported
    /\ SkipDecision(block) = None
    /\ lineNo > Len(Lines(block.content))
    /\ Len(Lines(block.content)) > 1
    /\ runCalls = <<>>
    /\ Report.status.tag = "Skipped"
    /\ Report.skip_reason = Some(CommentsReason)
    /\ Report.sandbox = None

\* --------------------------------------- properties of the reports of a run

\* The k-th report is the report of the k-th selected block.
ReportOfBlock(k) ==
    /\ k <= Len(subset)
    /\ reports[k].id = subset[k].id
    /\ reports[k].name = subset[k].name
    /\ reports[k].headings = subset[k].headings
    /\ reports[k].language = subset[k].language

\* The selected blocks are blocks of the document, in discovery order.
InDiscoveryOrder ==
    \/ subset = <<>>
    \/ /\ IsSome(extracted) /\ Unwrap(extracted).ok
       /\ \/ subset = Unwrap(extracted).value
          \/ \E i \in 1..Len(Unwrap(extracted).value) : subset = <<Unwrap(extracted).value[i]>>

\* C34: a run that ends without a fatal error has produced exactly one report
\* per selected block, in discovery order, and each report has the id, name,
\* headings and language of its block; while execute is at work on a block,
\* neither that block nor the selection nor the extracted blocks change.
C34_OneReportPerBlockUnchanged ==
    /\ [](/\ InDiscoveryOrder
          /\ \A k \in 1..Len(reports) : ReportOfBlock(k)
          /\ run_pc = "executing" => block = subset[block_no]
          /\ (Exited /\ IsSome(run_result) /\ Unwrap(run_result).ok) =>
                /\ Len(reports) = Len(subset)
                /\ Unwrap(run_result).value = reports)
    /\ [][run_pc = "executing" =>
            (block' = block /\ subset' = subset /\ extracted' = extracted)]_vars

\* C34's case: a run of two blocks has ended without error; the first, named
\* and under a heading, was skipped for having only comments, the second ran
\* its two commands under two headings.
C34_Witness ==
    /\ Exited
    /\ IsSome(run_result) /\ Unwrap(run_result).ok
    /\ Len(subset) = 2
    /\ Len(Unwrap(run_result).value) = 2
    /\ reports[1].status.tag = "Skipped"
    /\ IsSome(reports[1].name) /\ IsSome(reports[1].language)
    /\ reports[1].headings /= <<>>
    /\ reports[2].status.tag /= "Skipped"
    /\ Len(reports[2].headings) = 2
    /\ Len(LogOf(reports[2].id)) = 2

====
